---- MODULE Spec2Model ----
(***************************************************************************)
(* Model of the multi-tenant client/session layer of google-mcp:           *)
(*   - ClientManager (src/utils/client-manager.ts): the cache of           *)
(*     per-identity, per-service Google API clients;                       *)
(*   - the "call tool" request handler and the startup code of             *)
(*     src/index.ts.                                                       *)
(* JavaScript runs one task at a time and an async function runs without   *)
(* interruption from one await to the next, so every action below is one   *)
(* such uninterrupted segment of a call.                                   *)
(*                                                                         *)
(* Three specifications share the state:                                   *)
(*   Spec          callers use a constructed ClientManager directly;       *)
(*   DispatchSpec  tool calls arrive at the request handler of a server    *)
(*                 that is starting up;                                    *)
(*   ListSpec      "list tools" requests arrive at the catalog of          *)
(*                 src/tools.ts.                                           *)
(***************************************************************************)
EXTENDS Integers, Sequences, FiniteSets, TLC

(* ---------------------------------------------------------------- bounds *)

\* number of get calls issued over a run of Spec (all may be in flight at once)
MaxCalls == 3

\* number of distinct services the calls of one run of Spec ask for
MaxServices == 2

\* number of tool calls received over a run of DispatchSpec
MaxRequests == 2

\* number of distinct tool names the tool calls of one run carry
MaxTools == 1

(* ------------------------------------------------------------ data model *)

\* the five services ClientManager serves
Services == {"calendar", "gmail", "drive", "tasks", "meet"}

\* the services whose default instance index.ts passes to the constructor
DefaultServices == {"calendar", "gmail", "drive", "tasks"}

\* the absent authToken argument (JavaScript undefined)
Undefined == "<undefined>"

\* bearer credentials callers present
Credentials == {"tok-A", "tok-B"}

\* every value the authToken parameter takes: a credential, "" or undefined
AuthTokens == Credentials \cup {"", Undefined}

\* a test that takes the empty string for a credential
Truthy_NotUndefined(authToken) == authToken # Undefined

\* JavaScript truthiness of the authToken parameter: if (authToken)
Truthy(authToken) == authToken # Undefined /\ authToken # ""

\* the null reference: what Map.get returns for a missing key
NoClient == 0

\* hashString of helper.js: a deterministic, injective digest of the token
hashString(authToken) ==
    CASE authToken = "tok-A" -> "3f9a"
      [] authToken = "tok-B" -> "c41e"
      [] authToken = "" -> "e3b0"
      [] OTHER -> "7d86"

\* a get that hashes something other than its argument
HashedToken_Constant(authToken) == hashString("authToken")

\* const hashedToken = hashString(authToken), the first statement of every
\* credentialed get
HashedToken(authToken) == hashString(authToken)

\* the key a lookup reads: this.clients.get(`${hashedToken}-google-calendar`)
LookupKey(hashedToken, service) == hashedToken \o "-google-" \o service

\* a build that writes the key of the default identity
StoreKey_Default(hashedToken, service) == "default" \o "-google-" \o service

\* a build that writes a misspelt key
StoreKey_Misspelt(hashedToken, service) == hashedToken \o "_google_" \o service

\* the key a build writes: this.clients.set(`${hashedToken}-google-calendar`, ..)
StoreKey(hashedToken, service) == hashedToken \o "-google-" \o service

\* the key of the default identity: "default-google-calendar"
DefaultKey(service) == "default" \o "-google-" \o service

\* Map.get: the value stored under key, or undefined
MapGet(map, key) ==
    IF \E e \in map : e.key = key
    THEN (CHOOSE e \in map : e.key = key).val
    ELSE NoClient

\* a cache that is rebuilt around the new value
MapSet_Reset(map, key, val) == {[key |-> key, val |-> val]}

\* a cache that keeps the old value next to the new one
MapSet_Keep(map, key, val) == map \cup {[key |-> key, val |-> val]}

\* Map.set: the value under key is replaced, every other entry is kept
MapSet(map, key, val) ==
    {e \in map : e.key # key} \cup {[key |-> key, val |-> val]}

\* a client object: new GoogleCalendar(authClient), new GoogleMeet(authClient, calendar)
NewClient(service, authToken, calendar) ==
    [service |-> service, cred |-> authToken, calendar |-> calendar]

(* ----------------------------------------------------------------- state *)

VARIABLES
    multiuser,   \* MULTIUSER_MODE
    init,        \* initializationPromise: "pending", "ready" or "failed"
    clients,     \* ClientManager.clients: a set of [key, val] entries
    heap,        \* the client objects constructed so far; a reference is an index
    pc,          \* per call: where the call stands
    svc,         \* per call: the service of the get being made
    tok,         \* per call: the authToken argument of the get being made
    res,         \* per call: the reference the get returned
    cal,         \* per call: the Calendar client a Meet build obtained
    gets,        \* per <<service, credential>>: cache lookups made by gets
    factory,     \* per <<service, credential>>: createAuthClient invocations
    registered,  \* every [key, val] ever passed to clients.set
    lastDone,    \* per <<service, authToken>>: what the latest completed get returned
    tool,        \* per tool call: request.params.name
    args,        \* per tool call: the shape of request.params.arguments
    hdr,         \* per tool call: the authorization header of the request
    cred,        \* per tool call: what extractAuthToken made of the header
    asks,        \* per tool call: the gets the handler has made, in order
    used,        \* per tool call: the client methods the handler has invoked
    env,         \* per tool call: the envelope the handler returned
    listPc,      \* the latest "list tools" request: "none", "received", "listed"
    listScopes,  \* the scopes of the latest "list tools" request
    listing,     \* the tools the latest "list tools" request returned
    unscoped,  \* every listing returned to a request without scopes
    httpPc,      \* per HTTP request: where the request listener stands
    trans,       \* per HTTP request: the transport getTransport made for it
    cache,       \* TransportCache.cache: transport ids, least recently set first
    made,        \* StreamableHTTPServerTransport objects constructed so far
    closed,      \* the transports close() has been invoked on
    swallowed,   \* a rejection of close() was caught by dispose
    headersSent, \* per HTTP request: res.headersSent
    ended,       \* per HTTP request: res.end has run
    timer,       \* per HTTP request: the 25 s timeout: unset, armed, fired, cleared
    wrote,       \* per HTTP request: the fallback statuses the listener wrote
    bursts,      \* arrivals of other requests so far
    destroyed,   \* HttpTransportHandler.destroy has run
    fetchPc,     \* fetchAllTranscriptEntries: idle, waiting, returned or failed
    pageToken,   \* its local pageToken
    entries,     \* its local entries
    requested,   \* the pageToken of every entries.list request it made
    pages        \* the responses it received

mgrVars == <<clients, heap, gets, factory, registered, lastDone>>

getVars == <<pc, svc, tok, res, cal>>

reqVars == <<tool, args, hdr, cred, asks, used, env>>

listVars == <<listPc, listScopes, listing, unscoped>>

httpVars == <<httpPc, trans, cache, made, closed, swallowed, headersSent, ended,
              timer, wrote, bursts, destroyed>>

fetchVars == <<fetchPc, pageToken, entries, requested, pages>>

\* what the ClientManager and the tool call handler leave alone
sideVars == <<listVars, httpVars, fetchVars>>

vars == <<multiuser, init, mgrVars, getVars, reqVars, listVars, httpVars, fetchVars>>

\* the direct callers of Spec and the tool calls of DispatchSpec
Calls == 1 .. MaxCalls

Requests == 1 .. MaxRequests

Slots == Calls \cup Requests

\* the values that stand for "none": no tool name, no envelope
NoTool == ""

NoEnvelope == [isError |-> FALSE, text |-> ""]

\* a counter per <<service, credential>> that starts at 0
Count(counter, key) == IF key \in DOMAIN counter THEN counter[key] ELSE 0

Bump(counter, key) ==
    [k \in DOMAIN counter \cup {key} |-> Count(counter, k) + (IF k = key THEN 1 ELSE 0)]

\* the ClientManager constructor: one entry per default instance it is given
Constructor(defaults) ==
    {[key |-> DefaultKey(s), val |-> defaults[s]] : s \in DOMAIN defaults}

\* startup of index.ts: one default client per service of DefaultServices in
\* single-tenant mode, built on createAuthClient(); none in multi-tenant mode
StartupHeap(multi) ==
    IF multi THEN <<>>
    ELSE <<NewClient("calendar", Undefined, NoClient),
           NewClient("gmail", Undefined, NoClient),
           NewClient("drive", Undefined, NoClient),
           NewClient("tasks", Undefined, NoClient)>>

StartupClients(multi) ==
    LET h == StartupHeap(multi)
        ref(s) == CHOOSE i \in DOMAIN h : h[i].service = s
    IN  Constructor([s \in {h[i].service : i \in DOMAIN h} |-> ref(s)])

\* no call has been made yet
NoCalls ==
    /\ pc = [p \in Slots |-> "idle"]
    /\ svc = [p \in Slots |-> "calendar"]
    /\ tok = [p \in Slots |-> Undefined]
    /\ res = [p \in Slots |-> NoClient]
    /\ cal = [p \in Slots |-> NoClient]
    /\ gets = <<>>
    /\ factory = <<>>
    /\ registered = {}
    /\ lastDone = {}
    /\ tool = [p \in Slots |-> NoTool]
    /\ args = [p \in Slots |-> "none"]
    /\ hdr = [p \in Slots |-> Undefined]
    /\ cred = [p \in Slots |-> Undefined]
    /\ asks = [p \in Slots |-> <<>>]
    /\ used = [p \in Slots |-> <<>>]
    /\ env = [p \in Slots |-> NoEnvelope]

\* no "list tools" request has been made yet
NoListing ==
    /\ listPc = "none"
    /\ listScopes = [given |-> FALSE, list |-> <<>>]
    /\ listing = <<>>
    /\ unscoped = {}

\* the number of HTTP requests followed one by one
MaxHttp == 1

HttpRequests == 1 .. MaxHttp

\* no HTTP request has arrived and no transport exists
NoHttp ==
    /\ httpPc = [r \in HttpRequests |-> "idle"]
    /\ trans = [r \in HttpRequests |-> 0]
    /\ cache = <<>>
    /\ made = 0
    /\ closed = {}
    /\ swallowed = FALSE
    /\ headersSent = [r \in HttpRequests |-> FALSE]
    /\ ended = [r \in HttpRequests |-> FALSE]
    /\ timer = [r \in HttpRequests |-> "unset"]
    /\ wrote = [r \in HttpRequests |-> <<>>]
    /\ bursts = 0
    /\ destroyed = FALSE

\* fetchAllTranscriptEntries has not been called
NoFetch ==
    /\ fetchPc = "idle"
    /\ pageToken = Undefined
    /\ entries = <<>>
    /\ requested = <<>>
    /\ pages = <<>>

\* Spec starts once startup has constructed the ClientManager
Init ==
    /\ multiuser \in BOOLEAN
    /\ init = "ready"
    /\ heap = StartupHeap(multiuser)
    /\ clients = StartupClients(multiuser)
    /\ NoCalls
    /\ NoListing
    /\ NoHttp
    /\ NoFetch

\* DispatchSpec starts when the transport is connected: in multi-tenant mode
\* the ClientManager is there, in single-tenant mode createAuthClient() is
\* still pending
DispatchInit ==
    /\ multiuser \in BOOLEAN
    /\ init = IF multiuser THEN "ready" ELSE "pending"
    /\ heap = <<>>
    /\ clients = {}
    /\ NoCalls
    /\ NoListing
    /\ NoHttp
    /\ NoFetch

(* ------------------------------------------------- ClientManager actions *)

\* the services a get of a service involves: a Meet build gets Calendar too
Involved(service) ==
    IF service = "meet" THEN {"meet", "calendar"} ELSE {service}

\* the services the calls issued so far involve
ServicesAsked ==
    UNION {Involved(svc[q]) : q \in {c \in Calls : pc[c] # "idle"}}

\* credentials are named in the order callers first present them: "tok-B" is
\* the name of the second distinct credential of a run
Presentable ==
    {"tok-A"} \cup {t \in Credentials : \E q \in Calls : pc[q] # "idle" /\ tok[q] = "tok-A"}

\* the reference the next constructed client gets
NewRef == Len(heap) + 1

\* where a call goes on once its get has returned: a direct caller is done,
\* the request handler goes on to use the client
ReturnTo(p) == IF tool[p] = NoTool THEN "done" ELSE "resolved"

\* getGoogle<Service>Instance(authToken), from the call to its first await or
\* return: the default path, the cache hit, or the miss that invokes
\* createAuthClient(authToken) and suspends
Lookup(p, service, authToken, returnTo) ==
    /\ svc' = [svc EXCEPT ![p] = service]
    /\ tok' = [tok EXCEPT ![p] = authToken]
    /\ IF Truthy(authToken)
       THEN LET key == LookupKey(HashedToken(authToken), service)
                client == MapGet(clients, key)
            IN  /\ gets' = Bump(gets, <<service, authToken>>)
                /\ IF client # NoClient
                   THEN /\ pc' = [pc EXCEPT ![p] = returnTo]
                        /\ res' = [res EXCEPT ![p] = client]
                        /\ lastDone' = MapSet(lastDone, <<service, authToken>>, client)
                        /\ UNCHANGED factory
                   ELSE /\ pc' = [pc EXCEPT ![p] = "auth"]
                        /\ factory' = Bump(factory, <<service, authToken>>)
                        /\ UNCHANGED <<res, lastDone>>
       ELSE /\ pc' = [pc EXCEPT ![p] = returnTo]
            /\ res' = [res EXCEPT ![p] = MapGet(clients, DefaultKey(service))]
            /\ lastDone' = MapSet(lastDone, <<service, authToken>>,
                                  MapGet(clients, DefaultKey(service)))
            /\ UNCHANGED <<gets, factory>>
    /\ UNCHANGED <<clients, heap, cal, registered>>

\* a caller calls getGoogle<Service>Instance(authToken) on the ClientManager
GetInstance(p, service, authToken) ==
    /\ pc[p] = "idle"
    /\ \A q \in Calls : q < p => pc[q] # "idle"
    /\ Cardinality(ServicesAsked \cup Involved(service)) <= MaxServices
    /\ authToken \in Credentials => authToken \in Presentable
    /\ Lookup(p, service, authToken, "done")
    /\ UNCHANGED <<sideVars, multiuser, init, reqVars>>

\* a build that returns its client without storing it
AuthResolve_Unregistered(p) ==
    /\ pc[p] = "auth"
    /\ svc[p] # "meet"
    /\ heap' = Append(heap, NewClient(svc[p], tok[p], NoClient))
    /\ res' = [res EXCEPT ![p] = NewRef]
    /\ lastDone' = MapSet(lastDone, <<svc[p], tok[p]>>, NewRef)
    /\ pc' = [pc EXCEPT ![p] = ReturnTo(p)]
    /\ UNCHANGED <<sideVars, multiuser, init, clients, registered, svc, tok, cal,
                   gets, factory, reqVars>>

\* createAuthClient(authToken) resolves in a Calendar, Gmail, Drive or Tasks
\* build: the client is constructed, stored under its key and returned
AuthResolve(p) ==
    /\ pc[p] = "auth"
    /\ svc[p] # "meet"
    /\ LET key == StoreKey(HashedToken(tok[p]), svc[p])
       IN  /\ heap' = Append(heap, NewClient(svc[p], tok[p], NoClient))
           /\ clients' = MapSet(clients, key, NewRef)
           /\ registered' = registered \cup {[key |-> key, val |-> NewRef]}
           /\ res' = [res EXCEPT ![p] = NewRef]
           /\ lastDone' = MapSet(lastDone, <<svc[p], tok[p]>>, NewRef)
    /\ pc' = [pc EXCEPT ![p] = ReturnTo(p)]
    /\ UNCHANGED <<sideVars, multiuser, init, svc, tok, cal, gets, factory, reqVars>>

\* a Meet build that builds its Calendar client without asking the cache
MeetAuthResolve_AlwaysBuild(p) ==
    /\ pc[p] = "auth"
    /\ svc[p] = "meet"
    /\ gets' = Bump(gets, <<"calendar", tok[p]>>)
    /\ pc' = [pc EXCEPT ![p] = "calAuth"]
    /\ factory' = Bump(factory, <<"calendar", tok[p]>>)
    /\ UNCHANGED <<sideVars, multiuser, init, clients, heap, svc, tok, res, cal,
                   registered, lastDone, reqVars>>

\* createAuthClient(authToken) resolves in a Meet build: the second constructor
\* argument is evaluated, getGoogleCalendarInstance(authToken) runs to its
\* return (hit) or to its own createAuthClient (miss)
MeetAuthResolve(p) ==
    /\ pc[p] = "auth"
    /\ svc[p] = "meet"
    /\ LET key == LookupKey(HashedToken(tok[p]), "calendar")
           client == MapGet(clients, key)
       IN  /\ gets' = Bump(gets, <<"calendar", tok[p]>>)
           /\ IF client # NoClient
              THEN /\ pc' = [pc EXCEPT ![p] = "calReady"]
                   /\ cal' = [cal EXCEPT ![p] = client]
                   /\ lastDone' = MapSet(lastDone, <<"calendar", tok[p]>>, client)
                   /\ UNCHANGED factory
              ELSE /\ pc' = [pc EXCEPT ![p] = "calAuth"]
                   /\ factory' = Bump(factory, <<"calendar", tok[p]>>)
                   /\ UNCHANGED <<cal, lastDone>>
    /\ UNCHANGED <<sideVars, multiuser, init, clients, heap, svc, tok, res, registered,
                   reqVars>>

\* the nested Calendar build of a Meet build completes: the Calendar client is
\* constructed, stored and handed back to the suspended Meet build
MeetCalendarResolve(p) ==
    /\ pc[p] = "calAuth"
    /\ LET key == StoreKey(HashedToken(tok[p]), "calendar")
       IN  /\ heap' = Append(heap, NewClient("calendar", tok[p], NoClient))
           /\ clients' = MapSet(clients, key, NewRef)
           /\ registered' = registered \cup {[key |-> key, val |-> NewRef]}
           /\ cal' = [cal EXCEPT ![p] = NewRef]
           /\ lastDone' = MapSet(lastDone, <<"calendar", tok[p]>>, NewRef)
    /\ pc' = [pc EXCEPT ![p] = "calReady"]
    /\ UNCHANGED <<sideVars, multiuser, init, svc, tok, res, gets, factory, reqVars>>

\* both constructor arguments of a Meet build are there: the Meet client is
\* constructed around the Calendar client, stored under its key and returned
MeetFinish(p) ==
    /\ pc[p] = "calReady"
    /\ LET key == StoreKey(HashedToken(tok[p]), "meet")
       IN  /\ heap' = Append(heap, NewClient("meet", tok[p], cal[p]))
           /\ clients' = MapSet(clients, key, NewRef)
           /\ registered' = registered \cup {[key |-> key, val |-> NewRef]}
           /\ res' = [res EXCEPT ![p] = NewRef]
           /\ lastDone' = MapSet(lastDone, <<"meet", tok[p]>>, NewRef)
    /\ pc' = [pc EXCEPT ![p] = ReturnTo(p)]
    /\ UNCHANGED <<sideVars, multiuser, init, svc, tok, cal, gets, factory, reqVars>>

\* the envelope of the handler's catch block: "Error: <message>"
ErrorEnvelope(message) == [isError |-> TRUE, text |-> "Error: " \o message]

\* a handler without the catch block: the rejection reaches the transport
Thrown_Propagates(p, message) ==
    /\ pc' = [pc EXCEPT ![p] = "failed"]
    /\ UNCHANGED env

\* what a rejected createAuthClient does to its caller: a direct caller sees
\* the rejection, the request handler catches it and returns the envelope
Thrown(p, message) ==
    IF tool[p] = NoTool
    THEN /\ pc' = [pc EXCEPT ![p] = "failed"]
         /\ UNCHANGED env
    ELSE /\ pc' = [pc EXCEPT ![p] = "replied"]
         /\ env' = [env EXCEPT ![p] = ErrorEnvelope(message)]

\* a failing build that leaves a placeholder under its key
AuthReject_Poisoned(p) ==
    /\ pc[p] \in {"auth", "calAuth"}
    /\ Thrown(p, "invalid_grant")
    /\ clients' = MapSet(clients, StoreKey(HashedToken(tok[p]), svc[p]), NoClient)
    /\ UNCHANGED <<sideVars, multiuser, init, heap, svc, tok, res, cal,
                   gets, factory, registered, lastDone,
                   tool, args, hdr, cred, asks, used>>

\* createAuthClient(authToken) rejects (bad, expired or revoked credential):
\* the exception leaves the build before anything is constructed or stored
AuthReject(p) ==
    /\ pc[p] \in {"auth", "calAuth"}
    /\ Thrown(p, "invalid_grant")
    /\ UNCHANGED <<sideVars, multiuser, init, mgrVars, svc, tok, res, cal,
                   tool, args, hdr, cred, asks, used>>

Next ==
    \/ \E p \in Calls, s \in Services, t \in AuthTokens : GetInstance(p, s, t)
    \/ \E p \in Calls : AuthResolve(p)
    \/ \E p \in Calls : MeetAuthResolve(p)
    \/ \E p \in Calls : MeetCalendarResolve(p)
    \/ \E p \in Calls : MeetFinish(p)
    \/ \E p \in Calls : AuthReject(p)

Spec == Init /\ [][Next]_vars

(* ----------------------------------------------- request handler actions *)

\* one case of the handler's switch: the ClientManager method it calls, the
\* client method it invokes, whether that method is awaited, and whether the
\* get is passed authToken
Case(service, method, awaited, passesToken) ==
    [service |-> service, method |-> method, awaited |-> awaited,
     passesToken |-> passesToken]

\* the switch of the "call tool" handler
Handler(name) ==
    CASE name = "google_calendar_set_default" -> Case("calendar", "setDefaultCalendarId", FALSE, TRUE)
      [] name = "google_calendar_list_calendars" -> Case("calendar", "listCalendars", TRUE, TRUE)
      [] name = "google_calendar_create_event" -> Case("calendar", "createEvent", TRUE, TRUE)
      [] name = "google_calendar_get_events" -> Case("calendar", "getEvents", TRUE, TRUE)
      [] name = "google_calendar_get_event" -> Case("calendar", "getEvent", TRUE, TRUE)
      [] name = "google_calendar_update_event" -> Case("calendar", "updateEvent", TRUE, TRUE)
      [] name = "google_calendar_delete_event" -> Case("calendar", "deleteEvent", TRUE, TRUE)
      [] name = "google_calendar_find_free_time" -> Case("calendar", "findFreeTime", TRUE, TRUE)
      [] name = "google_gmail_list_labels" -> Case("gmail", "listLabels", TRUE, TRUE)
      [] name = "google_gmail_list_emails" -> Case("gmail", "listEmails", TRUE, TRUE)
      [] name = "google_gmail_get_email" -> Case("gmail", "getEmail", TRUE, TRUE)
      [] name = "google_gmail_get_email_by_index" -> Case("gmail", "getEmail", TRUE, TRUE)
      [] name = "google_gmail_send_email" -> Case("gmail", "sendEmail", TRUE, TRUE)
      [] name = "google_gmail_draft_email" -> Case("gmail", "draftEmail", TRUE, TRUE)
      [] name = "google_gmail_delete_email" -> Case("gmail", "deleteEmail", TRUE, TRUE)
      [] name = "google_gmail_modify_labels" -> Case("gmail", "modifyLabels", TRUE, TRUE)
      [] name = "google_drive_list_files" -> Case("drive", "listFiles", TRUE, TRUE)
      [] name = "google_drive_get_file_content" -> Case("drive", "getFileContent", TRUE, TRUE)
      [] name = "google_drive_create_file" -> Case("drive", "createFile", TRUE, TRUE)
      [] name = "google_drive_update_file" -> Case("drive", "updateFile", TRUE, TRUE)
      [] name = "google_drive_delete_file" -> Case("drive", "deleteFile", TRUE, TRUE)
      [] name = "google_drive_share_file" -> Case("drive", "shareFile", TRUE, TRUE)
      [] name = "google_tasks_set_default_list" -> Case("tasks", "setDefaultTaskList", FALSE, TRUE)
      [] name = "google_tasks_list_tasklists" -> Case("tasks", "listTaskLists", TRUE, TRUE)
      [] name = "google_tasks_list_tasks" -> Case("tasks", "listTasks", TRUE, TRUE)
      [] name = "google_tasks_get_task" -> Case("tasks", "getTask", TRUE, FALSE)
      [] name = "google_tasks_create_task" -> Case("tasks", "createTask", TRUE, TRUE)
      [] name = "google_tasks_update_task" -> Case("tasks", "updateTask", TRUE, TRUE)
      [] name = "google_tasks_complete_task" -> Case("tasks", "completeTask", TRUE, TRUE)
      [] name = "google_tasks_delete_task" -> Case("tasks", "deleteTask", TRUE, TRUE)
      [] name = "google_tasks_create_tasklist" -> Case("tasks", "createTaskList", TRUE, TRUE)
      [] name = "google_tasks_delete_tasklist" -> Case("tasks", "deleteTaskList", TRUE, TRUE)

\* the case labels of the switch
HandledTools ==
    {"google_calendar_set_default", "google_calendar_list_calendars",
     "google_calendar_create_event", "google_calendar_get_events",
     "google_calendar_get_event", "google_calendar_update_event",
     "google_calendar_delete_event", "google_calendar_find_free_time",
     "google_gmail_list_labels", "google_gmail_list_emails",
     "google_gmail_get_email", "google_gmail_get_email_by_index",
     "google_gmail_send_email", "google_gmail_draft_email",
     "google_gmail_delete_email", "google_gmail_modify_labels",
     "google_drive_list_files", "google_drive_get_file_content",
     "google_drive_create_file", "google_drive_update_file",
     "google_drive_delete_file", "google_drive_share_file",
     "google_tasks_set_default_list", "google_tasks_list_tasklists",
     "google_tasks_list_tasks", "google_tasks_get_task",
     "google_tasks_create_task", "google_tasks_update_task",
     "google_tasks_complete_task", "google_tasks_delete_task",
     "google_tasks_create_tasklist", "google_tasks_delete_tasklist"}

\* the tool names requests carry: the case labels and names the switch lacks
ToolNames ==
    HandledTools \cup {"google_drive_append_to_file", "google_meet_list_meetings",
                       "google_meet_get_meeting_info", "google_meet_get_transcript",
                       "google_meet_search_transcripts", "no_such_tool"}

\* the shapes of request.params.arguments: missing; rejected by the tool's
\* validator; accepted with summary, start or end empty; accepted
ArgShapes == {"none", "invalid", "blank", "valid"}

\* the authorization headers requests carry
Headers == {Undefined} \cup {"Bearer " \o t : t \in Credentials}

\* extractAuthToken of auth.js: the credential of a bearer header
extractAuthToken(header) ==
    IF header = Undefined
    THEN Undefined
    ELSE CHOOSE t \in Credentials : header = "Bearer " \o t

\* the authToken argument of the case's get: google_tasks_get_task calls
\* getGoogleTasksInstance() with no argument
PassedToken(name, authToken) ==
    IF Handler(name).passesToken THEN authToken ELSE Undefined

\* the handler returns an envelope
Reply(p, envelope) ==
    /\ pc' = [pc EXCEPT ![p] = "replied"]
    /\ env' = [env EXCEPT ![p] = envelope]

\* the envelope of a successful case
ResultEnvelope(text) == [isError |-> FALSE, text |-> text]

\* the envelope of the default case
UnknownToolEnvelope(name) == [isError |-> TRUE, text |-> "Unknown tool: " \o name]

\* a get the handler makes: by the single-tenant startup guard or by the tool's case
Ask(at, service, authToken) == [at |-> at, service |-> service, tok |-> authToken]

\* the gets of the single-tenant startup guard, each made with no argument
StartupGuard ==
    <<Ask("guard", "calendar", Undefined), Ask("guard", "gmail", Undefined),
      Ask("guard", "drive", Undefined), Ask("guard", "tasks", Undefined)>>

\* the handler from "if (!args)" to the first await of the tool's case,
\* for request.params = {name, arguments: a}; asked lists the gets the segment
\* has made before
Dispatch(p, name, a, authToken, asked) ==
    LET rejected(envelope) ==
            /\ Reply(p, envelope)
            /\ asks' = [asks EXCEPT ![p] = asked]
            /\ UNCHANGED <<mgrVars, svc, tok, res, cal>>
    IN  IF a = "none"
        THEN rejected(ErrorEnvelope("No arguments provided"))
        ELSE IF name \notin HandledTools
        THEN rejected(UnknownToolEnvelope(name))
        ELSE IF a = "invalid"
        THEN rejected(ErrorEnvelope("Invalid arguments for " \o name))
        ELSE IF name = "google_calendar_create_event" /\ a = "blank"
        THEN rejected(ErrorEnvelope("Missing required arguments"))
        ELSE /\ Lookup(p, Handler(name).service, PassedToken(name, authToken),
                       "resolved")
             /\ asks' = [asks EXCEPT ![p] = Append(asked,
                            Ask("case", Handler(name).service,
                                PassedToken(name, authToken)))]
             /\ UNCHANGED env

\* the tool calls received so far
Received == {q \in Requests : pc[q] # "idle"}

\* the tool names the next tool call of the run may carry
Admissible ==
    LET seen == {tool[q] : q \in Received}
    IN  IF Cardinality(seen) < MaxTools THEN ToolNames ELSE seen

\* a tool call arrives and its handler runs to the first point where it waits
\* on shared state: the segment before "await extractAuthToken(..)" reads the
\* request only, so it is one step with the segment that follows it
CallTool(p, name, a, header) ==
    /\ p \in Requests
    /\ pc[p] = "idle"
    /\ \A q \in Requests : q < p => pc[q] # "idle"
    /\ name \in Admissible
    /\ header = "Bearer tok-B" => \E q \in Received : hdr[q] = "Bearer tok-A"
    /\ a = "blank" => name = "google_calendar_create_event"
    /\ tool' = [tool EXCEPT ![p] = name]
    /\ args' = [args EXCEPT ![p] = a]
    /\ hdr' = [hdr EXCEPT ![p] = header]
    /\ cred' = [cred EXCEPT ![p] = extractAuthToken(header)]
    /\ IF multiuser
       THEN Dispatch(p, name, a, extractAuthToken(header), <<>>)
       ELSE /\ pc' = [pc EXCEPT ![p] = "waitInit"]
            /\ UNCHANGED <<mgrVars, svc, tok, res, cal, asks, env>>
    /\ UNCHANGED <<sideVars, multiuser, init, used>>

\* startup: createAuthClient() resolves and the ClientManager is constructed
\* around the four default clients
StartupResolve ==
    /\ init = "pending"
    /\ init' = "ready"
    /\ heap' = StartupHeap(multiuser)
    /\ clients' = StartupClients(multiuser)
    /\ UNCHANGED <<sideVars, multiuser, gets, factory, registered, lastDone, getVars,
                   reqVars>>

\* startup: createAuthClient() rejects and initializationPromise with it
StartupReject ==
    /\ init = "pending"
    /\ init' = "failed"
    /\ UNCHANGED <<sideVars, multiuser, mgrVars, getVars, reqVars>>

\* a handler that does not wait for startup
InitAwaited_NoWait(p) ==
    /\ pc[p] = "waitInit"
    /\ IF init = "failed"
       THEN /\ Thrown(p, "invalid_grant")
            /\ UNCHANGED <<mgrVars, svc, tok, res, cal, asks>>
       ELSE Dispatch(p, tool[p], args[p], cred[p], StartupGuard)
    /\ UNCHANGED <<sideVars, multiuser, init, tool, args, hdr, cred, used>>

\* a handler that goes on after a failed startup
InitAwaited_IgnoresFailure(p) ==
    /\ pc[p] = "waitInit"
    /\ init # "pending"
    /\ Dispatch(p, tool[p], args[p], cred[p], StartupGuard)
    /\ UNCHANGED <<sideVars, multiuser, init, tool, args, hdr, cred, used>>

\* "await initializationPromise" returns or throws in a single-tenant call;
\* when it returns the startup guard makes its four gets and the handler goes on
InitAwaited(p) ==
    /\ pc[p] = "waitInit"
    /\ init # "pending"
    /\ IF init = "failed"
       THEN /\ Thrown(p, "invalid_grant")
            /\ UNCHANGED <<mgrVars, svc, tok, res, cal, asks>>
       ELSE Dispatch(p, tool[p], args[p], cred[p], StartupGuard)
    /\ UNCHANGED <<sideVars, multiuser, init, tool, args, hdr, cred, used>>

\* a client method the handler invokes on a client
Use(method, client) == [method |-> method, client |-> client]

\* a handler that calls the method through optional chaining: (await ..)?.m()
Operate_OptionalChaining(p) ==
    /\ pc[p] = "resolved"
    /\ LET h == Handler(tool[p])
           client == res[p]
           first == tool[p] = "google_gmail_get_email_by_index" /\ used[p] = <<>>
       IN  IF client = NoClient
           THEN /\ Reply(p, ResultEnvelope("undefined"))
                /\ UNCHANGED <<mgrVars, svc, tok, res, cal, asks, used>>
           ELSE IF first
           THEN /\ used' = [used EXCEPT ![p] = Append(@, Use("getMessageIdByIndex", client))]
                /\ \/ /\ Reply(p, ErrorEnvelope("Invalid index"))
                      /\ UNCHANGED <<mgrVars, svc, tok, res, cal, asks>>
                   \/ /\ Lookup(p, h.service, PassedToken(tool[p], cred[p]), "resolved")
                      /\ asks' = [asks EXCEPT ![p] = Append(@,
                                     Ask("case", h.service,
                                         PassedToken(tool[p], cred[p])))]
                      /\ UNCHANGED env
           ELSE /\ used' = [used EXCEPT ![p] = Append(@, Use(h.method, client))]
                /\ IF h.awaited
                   THEN /\ pc' = [pc EXCEPT ![p] = "executing"]
                        /\ UNCHANGED env
                   ELSE Reply(p, ResultEnvelope("result of " \o h.method))
                /\ UNCHANGED <<mgrVars, svc, tok, res, cal, asks>>
    /\ UNCHANGED <<sideVars, multiuser, init, tool, args, hdr, cred>>

\* the get of the tool's case has returned: the handler invokes the method on
\* what it got.  google_gmail_get_email_by_index first calls the synchronous
\* getMessageIdByIndex and makes a second get for getEmail.
Operate(p) ==
    /\ pc[p] = "resolved"
    /\ LET h == Handler(tool[p])
           client == res[p]
           first == tool[p] = "google_gmail_get_email_by_index" /\ used[p] = <<>>
       IN  IF client = NoClient
           THEN /\ Reply(p, ErrorEnvelope("Cannot read properties of undefined"))
                /\ UNCHANGED <<mgrVars, svc, tok, res, cal, asks, used>>
           ELSE IF first
           THEN /\ used' = [used EXCEPT ![p] = Append(@, Use("getMessageIdByIndex", client))]
                /\ \/ /\ Reply(p, ErrorEnvelope("Invalid index"))
                      /\ UNCHANGED <<mgrVars, svc, tok, res, cal, asks>>
                   \/ /\ Lookup(p, h.service, PassedToken(tool[p], cred[p]), "resolved")
                      /\ asks' = [asks EXCEPT ![p] = Append(@,
                                     Ask("case", h.service,
                                         PassedToken(tool[p], cred[p])))]
                      /\ UNCHANGED env
           ELSE /\ used' = [used EXCEPT ![p] = Append(@, Use(h.method, client))]
                /\ IF h.awaited
                   THEN /\ pc' = [pc EXCEPT ![p] = "executing"]
                        /\ UNCHANGED env
                   ELSE Reply(p, ResultEnvelope("result of " \o h.method))
                /\ UNCHANGED <<mgrVars, svc, tok, res, cal, asks>>
    /\ UNCHANGED <<sideVars, multiuser, init, tool, args, hdr, cred>>

\* the awaited client method resolves: the handler returns its result
OpResolve(p) ==
    /\ pc[p] = "executing"
    /\ Reply(p, ResultEnvelope("result of " \o Handler(tool[p]).method))
    /\ UNCHANGED <<sideVars, multiuser, init, mgrVars, svc, tok, res, cal,
                   tool, args, hdr, cred, asks, used>>

\* the awaited client method rejects: the catch block returns the envelope
OpReject(p) ==
    /\ pc[p] = "executing"
    /\ Reply(p, ErrorEnvelope("upstream failure"))
    /\ UNCHANGED <<sideVars, multiuser, init, mgrVars, svc, tok, res, cal,
                   tool, args, hdr, cred, asks, used>>

DispatchNext ==
    \/ \E p \in Requests \ Received, name \in Admissible, a \in ArgShapes,
          header \in Headers :
          CallTool(p, name, a, header)
    \/ StartupResolve
    \/ StartupReject
    \/ \E p \in Requests : InitAwaited(p)
    \/ \E p \in Requests : AuthResolve(p)
    \/ \E p \in Requests : AuthReject(p)
    \/ \E p \in Requests : Operate(p)
    \/ \E p \in Requests : OpResolve(p)
    \/ \E p \in Requests : OpReject(p)

DispatchSpec == DispatchInit /\ [][DispatchNext]_vars

(* ------------------------------------------------------- tool catalog *)

\* a Tool object of tools.ts: the identifier that holds it and its name field
Tool(id, name) == [id |-> id, name |-> name]

SET_DEFAULT_CALENDAR_TOOL == Tool("SET_DEFAULT_CALENDAR_TOOL", "google_calendar_set_default")

LIST_CALENDARS_TOOL == Tool("LIST_CALENDARS_TOOL", "google_calendar_list_calendars")

CREATE_EVENT_TOOL == Tool("CREATE_EVENT_TOOL", "google_calendar_create_event")

GET_EVENTS_TOOL == Tool("GET_EVENTS_TOOL", "google_calendar_get_events")

GET_EVENT_TOOL == Tool("GET_EVENT_TOOL", "google_calendar_get_event")

UPDATE_EVENT_TOOL == Tool("UPDATE_EVENT_TOOL", "google_calendar_update_event")

DELETE_EVENT_TOOL == Tool("DELETE_EVENT_TOOL", "google_calendar_delete_event")

FIND_FREE_TIME_TOOL == Tool("FIND_FREE_TIME_TOOL", "google_calendar_find_free_time")

LIST_LABELS_TOOL == Tool("LIST_LABELS_TOOL", "google_gmail_list_labels")

LIST_EMAILS_TOOL == Tool("LIST_EMAILS_TOOL", "google_gmail_list_emails")

GET_EMAIL_TOOL == Tool("GET_EMAIL_TOOL", "google_gmail_get_email")

GET_EMAIL_BY_INDEX_TOOL == Tool("GET_EMAIL_BY_INDEX_TOOL", "google_gmail_get_email_by_index")

SEND_EMAIL_TOOL == Tool("SEND_EMAIL_TOOL", "google_gmail_send_email")

DRAFT_EMAIL_TOOL == Tool("DRAFT_EMAIL_TOOL", "google_gmail_draft_email")

DELETE_EMAIL_TOOL == Tool("DELETE_EMAIL_TOOL", "google_gmail_delete_email")

MODIFY_LABELS_TOOL == Tool("MODIFY_LABELS_TOOL", "google_gmail_modify_labels")

LIST_FILES_TOOL == Tool("LIST_FILES_TOOL", "google_drive_list_files")

GET_FILE_CONTENT_TOOL == Tool("GET_FILE_CONTENT_TOOL", "google_drive_get_file_content")

CREATE_FILE_TOOL == Tool("CREATE_FILE_TOOL", "google_drive_create_file")

UPDATE_FILE_TOOL == Tool("UPDATE_FILE_TOOL", "google_drive_update_file")

APPEND_TO_FILE_TOOL == Tool("APPEND_TO_FILE_TOOL", "google_drive_append_to_file")

DELETE_FILE_TOOL == Tool("DELETE_FILE_TOOL", "google_drive_delete_file")

SHARE_FILE_TOOL == Tool("SHARE_FILE_TOOL", "google_drive_share_file")

SET_DEFAULT_TASKLIST_TOOL == Tool("SET_DEFAULT_TASKLIST_TOOL", "google_tasks_set_default_list")

LIST_TASKLISTS_TOOL == Tool("LIST_TASKLISTS_TOOL", "google_tasks_list_tasklists")

LIST_TASKS_TOOL == Tool("LIST_TASKS_TOOL", "google_tasks_list_tasks")

GET_TASK_TOOL == Tool("GET_TASK_TOOL", "google_tasks_get_task")

CREATE_TASK_TOOL == Tool("CREATE_TASK_TOOL", "google_tasks_create_task")

UPDATE_TASK_TOOL == Tool("UPDATE_TASK_TOOL", "google_tasks_update_task")

COMPLETE_TASK_TOOL == Tool("COMPLETE_TASK_TOOL", "google_tasks_complete_task")

DELETE_TASK_TOOL == Tool("DELETE_TASK_TOOL", "google_tasks_delete_task")

CREATE_TASKLIST_TOOL == Tool("CREATE_TASKLIST_TOOL", "google_tasks_create_tasklist")

DELETE_TASKLIST_TOOL == Tool("DELETE_TASKLIST_TOOL", "google_tasks_delete_tasklist")

LIST_MEETINGS_TOOL == Tool("LIST_MEETINGS_TOOL", "google_meet_list_meetings")

GET_MEETING_INFO_TOOL == Tool("GET_MEETING_INFO_TOOL", "google_meet_get_meeting_info")

GET_MEETING_TRANSCRIPT_TOOL == Tool("GET_MEETING_TRANSCRIPT_TOOL", "google_meet_get_transcript")

SEARCH_MEETING_TRANSCRIPTS_TOOL == Tool("SEARCH_MEETING_TRANSCRIPTS_TOOL", "google_meet_search_transcripts")

QUERY_GEMINI_NOTES_TOOL == Tool("QUERY_GEMINI_NOTES_TOOL", "google_meet_query_gemini_notes")

\* number of scopes in the scope parameter of a "list tools" request
MaxScopes == 2

\* export const toolsPerScope
toolsPerScope ==
    [s \in {"https://www.googleapis.com/auth/calendar.readonly",
            "https://www.googleapis.com/auth/calendar",
            "https://www.googleapis.com/auth/gmail.readonly",
            "https://mail.google.com/",
            "https://www.googleapis.com/auth/drive.readonly",
            "https://www.googleapis.com/auth/drive",
            "https://www.googleapis.com/auth/tasks.readonly",
            "https://www.googleapis.com/auth/tasks",
            "https://www.googleapis.com/auth/meetings.space.readonly"} |->
        CASE s = "https://www.googleapis.com/auth/calendar.readonly" ->
                <<LIST_CALENDARS_TOOL, GET_EVENTS_TOOL, GET_EVENT_TOOL,
                  FIND_FREE_TIME_TOOL>>
          [] s = "https://www.googleapis.com/auth/calendar" ->
                <<SET_DEFAULT_CALENDAR_TOOL, LIST_CALENDARS_TOOL, CREATE_EVENT_TOOL,
                  GET_EVENTS_TOOL, GET_EVENT_TOOL, UPDATE_EVENT_TOOL,
                  DELETE_EVENT_TOOL, FIND_FREE_TIME_TOOL>>
          [] s = "https://www.googleapis.com/auth/gmail.readonly" ->
                <<LIST_LABELS_TOOL, LIST_EMAILS_TOOL, GET_EMAIL_TOOL,
                  GET_EMAIL_BY_INDEX_TOOL>>
          [] s = "https://mail.google.com/" ->
                <<LIST_LABELS_TOOL, LIST_EMAILS_TOOL, GET_EMAIL_TOOL,
                  GET_EMAIL_BY_INDEX_TOOL, SEND_EMAIL_TOOL, DRAFT_EMAIL_TOOL,
                  DELETE_EMAIL_TOOL, MODIFY_LABELS_TOOL>>
          [] s = "https://www.googleapis.com/auth/drive.readonly" ->
                <<LIST_FILES_TOOL, GET_FILE_CONTENT_TOOL>>
          [] s = "https://www.googleapis.com/auth/drive" ->
                <<LIST_FILES_TOOL, GET_FILE_CONTENT_TOOL, CREATE_FILE_TOOL,
                  APPEND_TO_FILE_TOOL, DELETE_FILE_TOOL, SHARE_FILE_TOOL>>
          [] s = "https://www.googleapis.com/auth/tasks.readonly" ->
                <<LIST_TASKLISTS_TOOL, LIST_TASKS_TOOL, GET_TASK_TOOL>>
          [] s = "https://www.googleapis.com/auth/tasks" ->
                <<SET_DEFAULT_TASKLIST_TOOL, LIST_TASKLISTS_TOOL, LIST_TASKS_TOOL,
                  GET_TASK_TOOL, CREATE_TASK_TOOL, UPDATE_TASK_TOOL,
                  COMPLETE_TASK_TOOL, DELETE_TASK_TOOL, CREATE_TASKLIST_TOOL,
                  DELETE_TASKLIST_TOOL>>
          [] s = "https://www.googleapis.com/auth/meetings.space.readonly" ->
                <<LIST_MEETINGS_TOOL, GET_MEETING_INFO_TOOL,
                  GET_MEETING_TRANSCRIPT_TOOL, SEARCH_MEETING_TRANSCRIPTS_TOOL>>]

\* a catalog that still lists the disabled update tool
tools_WithDisabled ==
    <<SET_DEFAULT_CALENDAR_TOOL, LIST_CALENDARS_TOOL, CREATE_EVENT_TOOL,
      GET_EVENTS_TOOL, GET_EVENT_TOOL, UPDATE_EVENT_TOOL, DELETE_EVENT_TOOL,
      FIND_FREE_TIME_TOOL,
      LIST_LABELS_TOOL, LIST_EMAILS_TOOL, GET_EMAIL_TOOL, GET_EMAIL_BY_INDEX_TOOL,
      SEND_EMAIL_TOOL, DRAFT_EMAIL_TOOL, DELETE_EMAIL_TOOL, MODIFY_LABELS_TOOL,
      LIST_FILES_TOOL, GET_FILE_CONTENT_TOOL, CREATE_FILE_TOOL, UPDATE_FILE_TOOL,
      APPEND_TO_FILE_TOOL, DELETE_FILE_TOOL, SHARE_FILE_TOOL,
      SET_DEFAULT_TASKLIST_TOOL, LIST_TASKLISTS_TOOL, LIST_TASKS_TOOL,
      GET_TASK_TOOL, CREATE_TASK_TOOL, UPDATE_TASK_TOOL, COMPLETE_TASK_TOOL,
      DELETE_TASK_TOOL, CREATE_TASKLIST_TOOL, DELETE_TASKLIST_TOOL,
      LIST_MEETINGS_TOOL, GET_MEETING_INFO_TOOL, GET_MEETING_TRANSCRIPT_TOOL,
      SEARCH_MEETING_TRANSCRIPTS_TOOL>>

\* const tools: the catalog, in registration order
tools ==
    <<SET_DEFAULT_CALENDAR_TOOL, LIST_CALENDARS_TOOL, CREATE_EVENT_TOOL,
      GET_EVENTS_TOOL, GET_EVENT_TOOL, UPDATE_EVENT_TOOL, DELETE_EVENT_TOOL,
      FIND_FREE_TIME_TOOL,
      LIST_LABELS_TOOL, LIST_EMAILS_TOOL, GET_EMAIL_TOOL, GET_EMAIL_BY_INDEX_TOOL,
      SEND_EMAIL_TOOL, DRAFT_EMAIL_TOOL, DELETE_EMAIL_TOOL, MODIFY_LABELS_TOOL,
      LIST_FILES_TOOL, GET_FILE_CONTENT_TOOL, CREATE_FILE_TOOL,
      APPEND_TO_FILE_TOOL, DELETE_FILE_TOOL, SHARE_FILE_TOOL,
      SET_DEFAULT_TASKLIST_TOOL, LIST_TASKLISTS_TOOL, LIST_TASKS_TOOL,
      GET_TASK_TOOL, CREATE_TASK_TOOL, UPDATE_TASK_TOOL, COMPLETE_TASK_TOOL,
      DELETE_TASK_TOOL, CREATE_TASKLIST_TOOL, DELETE_TASKLIST_TOOL,
      LIST_MEETINGS_TOOL, GET_MEETING_INFO_TOOL, GET_MEETING_TRANSCRIPT_TOOL,
      SEARCH_MEETING_TRANSCRIPTS_TOOL>>

\* the JavaScript value undefined as an element of an array of objects
UndefinedValue == [id |-> "undefined", name |-> Undefined]

\* what toolsPerScope inherits from Object.prototype: "constructor" is the
\* function Object, "toString" a function, "__proto__" the prototype object
ObjectPrototype ==
    [k \in {"constructor", "toString", "__proto__"} |->
        CASE k = "constructor" -> [id |-> "Object", name |-> "Object"]
          [] k = "toString" -> [id |-> "Object.prototype.toString", name |-> "toString"]
          [] k = "__proto__" -> [id |-> "Object.prototype", name |-> Undefined]]

\* toolsPerScope[scope]: an own property is an array, an inherited one a
\* single object, anything else undefined; items is what flat() makes of it
Property(scope) ==
    IF scope \in DOMAIN toolsPerScope THEN toolsPerScope[scope]
    ELSE IF scope \in DOMAIN ObjectPrototype THEN <<ObjectPrototype[scope]>>
    ELSE <<UndefinedValue>>

\* scopes.map(scope => toolsPerScope[scope]).flat()
RECURSIVE MapFlat(_)
MapFlat(scopes) ==
    IF scopes = <<>> THEN <<>>
    ELSE Property(Head(scopes)) \o MapFlat(Tail(scopes))

\* Boolean(value) for the elements of the flattened array
Boolean(value) == value # UndefinedValue

\* self.findIndex(t => t.name === name): the first index with that name
FindIndex(self, name) ==
    CHOOSE i \in DOMAIN self :
        self[i].name = name /\ \A j \in 1 .. (i - 1) : self[j].name # name

\* array.filter((tool, index, self) => keep(index)), for a set of kept indices
RECURSIVE FilterIndexed(_, _, _)
FilterIndexed(self, kept, from) ==
    IF from > Len(self) THEN <<>>
    ELSE (IF from \in kept THEN <<self[from]>> ELSE <<>>)
         \o FilterIndexed(self, kept, from + 1)

\* allTools.filter((tool, index, self) =>
\*     index === self.findIndex(t => t.name === tool.name))
Unique(allTools) ==
    FilterIndexed(allTools,
                  {i \in DOMAIN allTools : i = FindIndex(allTools, allTools[i].name)},
                  1)

\* the scopes argument: absent, or an array of strings
NoScopes == [given |-> FALSE, list |-> <<>>]

Scopes(list) == [given |-> TRUE, list |-> list]

\* a listing that ignores the scopes it is given
getToolsForScopes_Unfiltered(scopes) == tools

\* getToolsForScopes(scopes)
getToolsForScopes(scopes) ==
    IF ~scopes.given THEN tools
    ELSE Unique(SelectSeq(MapFlat(scopes.list), Boolean))

\* the strings a scope parameter is made of: the keys of toolsPerScope, short
\* names and the empty string, names Object.prototype defines
ScopeStrings ==
    DOMAIN toolsPerScope \cup {"calendar.readonly", "", "constructor", "__proto__"}

\* a client composes a "list tools" request: without a scope parameter, or
\* with one whose first word is s
ListRequest(given, s) ==
    /\ listPc' = "received"
    /\ listScopes' = IF given THEN Scopes(<<s>>) ELSE NoScopes
    /\ listing' = <<>>
    /\ UNCHANGED <<httpVars, fetchVars, unscoped, multiuser, init, mgrVars, getVars, reqVars>>

\* the scope parameter of the request being composed has one more word
ListRequestWord(s) ==
    /\ listPc = "received"
    /\ listScopes.given
    /\ Len(listScopes.list) < MaxScopes
    /\ listScopes' = Scopes(Append(listScopes.list, s))
    /\ UNCHANGED <<httpVars, fetchVars, listPc, listing, unscoped, multiuser, init, mgrVars, getVars,
                   reqVars>>

\* the "list tools" handler: request.params.scope, split at the spaces when
\* there is one, is handed to getToolsForScopes and the result returned
ListTools ==
    /\ listPc = "received"
    /\ listPc' = "listed"
    /\ listing' = getToolsForScopes(listScopes)
    /\ unscoped' = IF listScopes.given THEN unscoped
                   ELSE unscoped \cup {getToolsForScopes(listScopes)}
    /\ UNCHANGED <<httpVars, fetchVars, listScopes, multiuser, init, mgrVars, getVars, reqVars>>

\* ListSpec starts like Spec, with no "list tools" request made yet
ListInit == Init

ListNext ==
    \/ \E given \in BOOLEAN, s \in ScopeStrings : ListRequest(given, s)
    \/ \E s \in ScopeStrings : ListRequestWord(s)
    \/ ListTools

ListSpec == ListInit /\ [][ListNext]_vars


(* ------------------------------------------------ HTTP transport handler *)

\* option max of the LRUCache: the number of transports it holds
max == 100

\* arrivals of requests that are not followed one by one
MaxBursts == 2

\* how many such requests register their transports in one arrival: one, or
\* as many as it takes to fill the cache
BurstSizes == {1, max - 1}

\* the routes of the request listener: the two GET routes it answers itself,
\* and everything else, which goes to a transport
Routes == {"openid", "health", "mcp"}

\* what the HTTP actions leave alone
besideHttp == <<multiuser, init, mgrVars, getVars, reqVars, listVars, fetchVars>>

\* the elements of a sequence
Range(seq) == {seq[i] : i \in DOMAIN seq}

\* a cache that never evicts
CacheSet_Unbounded(c, id) == Append(c, id)

\* LRUCache.set with a key the cache does not hold (ids are fresh UUIDs): a
\* full cache evicts its least recently used entry first; the cache is never
\* read, so that is the entry set first.  With ttl and no ttlAutopurge a stale
\* entry stays where it is until it is evicted or cleared.
CacheSet(c, id) == Append(IF Len(c) >= max THEN Tail(c) ELSE c, id)

\* n transports with the ids id, id + 1, .. are set one after another: what
\* stays are the max entries set last
SetMany(c, id, n) ==
    LET all == c \o [i \in 1 .. n |-> id + i - 1]
    IN  IF Len(all) > max THEN SubSeq(all, Len(all) - max + 1, Len(all)) ELSE all

\* dispose runs for every entry that left the cache: it invokes close() on the
\* transport and catches a rejection; fails says whether close() rejects
Dispose(before, after, fails) ==
    /\ closed' = closed \cup (Range(before) \ Range(after))
    /\ swallowed' = (swallowed \/ (fails /\ Range(before) \ Range(after) # {}))

\* clearTimeout(timeout): a timer that has fired stays fired
ClearTimeout(r) == IF timer[r] = "armed" THEN "cleared" ELSE timer[r]

\* the wrapped res.end: clearTimeout, log, originalEnd
End(r) ==
    /\ timer' = [timer EXCEPT ![r] = ClearTimeout(r)]
    /\ ended' = [ended EXCEPT ![r] = TRUE]

\* the listener writes a fallback response: writeHead(status), res.end(body)
Fallback(r, status) ==
    /\ wrote' = [wrote EXCEPT ![r] = Append(@, status)]
    /\ headersSent' = [headersSent EXCEPT ![r] = TRUE]

\* the catch block of the listener: clearTimeout, and a 500 response when no
\* headers have been sent
Catch(r) ==
    /\ httpPc' = [httpPc EXCEPT ![r] = "returned"]
    /\ IF ~headersSent[r]
       THEN /\ Fallback(r, 500)
            /\ End(r)
       ELSE /\ timer' = [timer EXCEPT ![r] = ClearTimeout(r)]
            /\ UNCHANGED <<wrote, headersSent, ended>>

\* a request arrives: the listener arms the timeout, wraps res.end and either
\* answers the route itself or calls getTransport, which constructs a
\* transport and a server and suspends in server.connect(transport)
Arrive(r, route) ==
    /\ httpPc[r] = "idle"
    /\ \A q \in HttpRequests : q < r => httpPc[q] # "idle"
    /\ IF route = "mcp"
       THEN /\ httpPc' = [httpPc EXCEPT ![r] = "connecting"]
            /\ made' = made + 1
            /\ trans' = [trans EXCEPT ![r] = made + 1]
            /\ timer' = [timer EXCEPT ![r] = "armed"]
            /\ UNCHANGED <<headersSent, ended>>
       ELSE /\ httpPc' = [httpPc EXCEPT ![r] = "returned"]
            /\ headersSent' = [headersSent EXCEPT ![r] = TRUE]
            /\ ended' = [ended EXCEPT ![r] = TRUE]
            /\ timer' = [timer EXCEPT ![r] = "cleared"]
            /\ UNCHANGED <<made, trans>>
    /\ UNCHANGED <<cache, closed, swallowed, wrote, bursts, destroyed, besideHttp>>

\* server.connect(transport) resolves: getTransport sets the transport in the
\* cache and returns it
Connected(r, fails) ==
    /\ httpPc[r] = "connecting"
    /\ httpPc' = [httpPc EXCEPT ![r] = "cached"]
    /\ cache' = CacheSet(cache, trans[r])
    /\ Dispose(cache, cache', fails)
    /\ UNCHANGED <<trans, made, headersSent, ended, timer, wrote, bursts, destroyed,
                   besideHttp>>

\* server.connect(transport) rejects: getTransport throws before the set
ConnectReject(r) ==
    /\ httpPc[r] = "connecting"
    /\ Catch(r)
    /\ UNCHANGED <<trans, cache, made, closed, swallowed, bursts, destroyed,
                   besideHttp>>

\* the listener resumes with the transport and calls handleRequest(req, res)
\* inside sessionStorage.run
Begin(r) ==
    /\ httpPc[r] = "cached"
    /\ httpPc' = [httpPc EXCEPT ![r] = "handling"]
    /\ UNCHANGED <<trans, cache, made, closed, swallowed, headersSent, ended, timer,
                   wrote, bursts, destroyed, besideHttp>>

\* handleRequest resolves: the listener returns
HandleResolve(r) ==
    /\ httpPc[r] = "handling"
    /\ httpPc' = [httpPc EXCEPT ![r] = "returned"]
    /\ UNCHANGED <<trans, cache, made, closed, swallowed, headersSent, ended, timer,
                   wrote, bursts, destroyed, besideHttp>>

\* handleRequest rejects: the catch block runs
HandleReject(r) ==
    /\ httpPc[r] = "handling"
    /\ Catch(r)
    /\ UNCHANGED <<trans, cache, made, closed, swallowed, bursts, destroyed,
                   besideHttp>>

\* the transport answers the request, during handleRequest or when the
\* server's reply is sent later: headers and body at once, or the headers of
\* a stream that stays open
TransportResponds(r, stream) ==
    /\ httpPc[r] \in {"handling", "returned"}
    /\ ~headersSent[r]
    /\ headersSent' = [headersSent EXCEPT ![r] = TRUE]
    /\ IF stream THEN UNCHANGED <<ended, timer>> ELSE End(r)
    /\ UNCHANGED <<httpPc, trans, cache, made, closed, swallowed, wrote, bursts,
                   destroyed, besideHttp>>

\* the transport ends a stream it had opened
TransportEnds(r) ==
    /\ httpPc[r] \in {"handling", "returned"}
    /\ headersSent[r]
    /\ ~ended[r]
    /\ End(r)
    /\ UNCHANGED <<httpPc, trans, cache, made, closed, swallowed, headersSent, wrote,
                   bursts, destroyed, besideHttp>>

\* a timeout callback that answers without looking at res.headersSent
TimerFires_Unguarded(r) ==
    /\ timer[r] = "armed"
    /\ Fallback(r, 408)
    /\ ended' = [ended EXCEPT ![r] = TRUE]
    /\ timer' = [timer EXCEPT ![r] = "fired"]
    /\ UNCHANGED <<httpPc, trans, cache, made, closed, swallowed, bursts, destroyed,
                   besideHttp>>

\* 25 s after the arrival the timeout callback runs: a 408 response when no
\* headers have been sent, nothing otherwise
TimerFires(r) ==
    /\ timer[r] = "armed"
    /\ timer' = [timer EXCEPT ![r] = "fired"]
    /\ IF ~headersSent[r]
       THEN /\ Fallback(r, 408)
            /\ ended' = [ended EXCEPT ![r] = TRUE]
       ELSE UNCHANGED <<wrote, headersSent, ended>>
    /\ UNCHANGED <<httpPc, trans, cache, made, closed, swallowed, bursts, destroyed,
                   besideHttp>>

\* the request emits "close" or "error": clearTimeout
RequestCloses(r) ==
    /\ httpPc[r] # "idle"
    /\ timer[r] = "armed"
    /\ timer' = [timer EXCEPT ![r] = "cleared"]
    /\ UNCHANGED <<httpPc, trans, cache, made, closed, swallowed, headersSent, ended,
                   wrote, bursts, destroyed, besideHttp>>

\* n other requests arrive and getTransport registers a transport for each
Burst(n, fails) ==
    /\ bursts < MaxBursts
    /\ bursts' = bursts + 1
    /\ made' = made + n
    /\ cache' = SetMany(cache, made + 1, n)
    /\ Dispose(cache, cache', fails)
    /\ UNCHANGED <<httpPc, trans, headersSent, ended, timer, wrote, destroyed,
                   besideHttp>>

\* HttpTransportHandler.destroy: TransportCache.destroy clears the cache,
\* which disposes of every entry
Destroy(fails) ==
    /\ ~destroyed
    /\ destroyed' = TRUE
    /\ cache' = <<>>
    /\ Dispose(cache, cache', fails)
    /\ UNCHANGED <<httpPc, trans, made, headersSent, ended, timer, wrote, bursts,
                   besideHttp>>

\* HttpSpec starts like Spec, with no HTTP request received yet
HttpInit == Init

HttpNext ==
    \/ \E r \in HttpRequests, route \in Routes : Arrive(r, route)
    \/ \E r \in HttpRequests, fails \in BOOLEAN : Connected(r, fails)
    \/ \E r \in HttpRequests : ConnectReject(r)
    \/ \E r \in HttpRequests : Begin(r)
    \/ \E r \in HttpRequests : HandleResolve(r)
    \/ \E r \in HttpRequests : HandleReject(r)
    \/ \E r \in HttpRequests, stream \in BOOLEAN : TransportResponds(r, stream)
    \/ \E r \in HttpRequests : TransportEnds(r)
    \/ \E r \in HttpRequests : TimerFires(r)
    \/ \E r \in HttpRequests : RequestCloses(r)
    \/ \E n \in BurstSizes, fails \in BOOLEAN : Burst(n, fails)
    \/ \E fails \in BOOLEAN : Destroy(fails)

HttpSpec == HttpInit /\ [][HttpNext]_vars

(* ------------------------------------------- GoogleMeet transcript pages *)

\* the number of pages after which the service has no more entries
MaxPages == 3

\* what the actions of the transcript fetch leave alone
besideFetch == <<multiuser, init, mgrVars, getVars, reqVars, listVars, httpVars>>

\* the values of response.data.nextPageToken: absent, empty, or a token
NextPageTokens == {Undefined, "", "token-1", "token-2"}

\* the values of response.data.transcriptEntries when the field is there
EntryLists == {<<>>, <<"entry-a">>, <<"entry-b", "entry-c">>}

\* response.data of entries.list: the field transcriptEntries may be missing
Responses ==
    [hasEntries : BOOLEAN, transcriptEntries : EntryLists,
     nextPageToken : NextPageTokens]

\* response.data.transcriptEntries || []
Chunk(response) ==
    IF response.hasEntries THEN response.transcriptEntries ELSE <<>>

\* fetchAllTranscriptEntries is called: entries = [], pageToken undefined, and
\* the first entries.list request is made with that pageToken
FetchCall ==
    /\ fetchPc = "idle"
    /\ fetchPc' = "waiting"
    /\ entries' = <<>>
    /\ pageToken' = Undefined
    /\ requested' = <<Undefined>>
    /\ UNCHANGED <<pages, besideFetch>>

\* a loop that asks for the first page again
FetchPage_Restarts(response) ==
    /\ fetchPc = "waiting"
    /\ Len(pages) + 1 >= MaxPages => ~Truthy(response.nextPageToken)
    /\ ~response.hasEntries => response.transcriptEntries = <<>>
    /\ pages' = Append(pages, response)
    /\ entries' = entries \o Chunk(response)
    /\ pageToken' = response.nextPageToken
    /\ IF Truthy(response.nextPageToken)
       THEN /\ requested' = Append(requested, Undefined)
            /\ UNCHANGED fetchPc
       ELSE /\ fetchPc' = "returned"
            /\ UNCHANGED requested
    /\ UNCHANGED besideFetch

\* entries.list resolves: the chunk is pushed onto entries, pageToken becomes
\* the response's nextPageToken, and while (pageToken) either makes the next
\* request with it or ends the loop, whereupon entries is returned.  The
\* service has at most MaxPages pages.
FetchPage(response) ==
    /\ fetchPc = "waiting"
    /\ Len(pages) + 1 >= MaxPages => ~Truthy(response.nextPageToken)
    /\ ~response.hasEntries => response.transcriptEntries = <<>>
    /\ pages' = Append(pages, response)
    /\ entries' = entries \o Chunk(response)
    /\ pageToken' = response.nextPageToken
    /\ IF Truthy(response.nextPageToken)
       THEN /\ requested' = Append(requested, response.nextPageToken)
            /\ UNCHANGED fetchPc
       ELSE /\ fetchPc' = "returned"
            /\ UNCHANGED requested
    /\ UNCHANGED besideFetch

\* entries.list rejects: the exception leaves fetchAllTranscriptEntries
FetchReject ==
    /\ fetchPc = "waiting"
    /\ fetchPc' = "failed"
    /\ UNCHANGED <<pageToken, entries, requested, pages, besideFetch>>

\* FetchSpec starts like Spec, with no transcript fetch made yet
FetchInit == Init

FetchNext ==
    \/ FetchCall
    \/ \E response \in Responses : FetchPage(response)
    \/ FetchReject

\* every entries.list request settles: it resolves or it rejects
FetchSpec ==
    /\ FetchInit
    /\ [][FetchNext]_vars
    /\ WF_vars((\E response \in Responses : FetchPage(response)) \/ FetchReject)
(* ----------------------------------------------------- derived vocabulary *)

\* the call was made with a credential
Keyed(p) == pc[p] # "idle" /\ tok[p] \in Credentials

\* the key under which the cache holds the client of a service and credential
KeyFor(service, authToken) == hashString(authToken) \o "-google-" \o service

\* the cache key of a credentialed call
CallKey(p) == KeyFor(svc[p], tok[p])

\* the cache entries under a key
Entries(key) == {e \in clients : e.key = key}

\* the keys of one credential, one per service
KeysOf(authToken) == {KeyFor(s, authToken) : s \in Services}

\* the keys of the default identity
DefaultKeys == {"default-google-" \o s : s \in Services}

\* what every completed get has handed to its caller, the Calendar lookup
\* inside a Meet build included
GetReturns ==
    {[service |-> svc[p], tok |-> tok[p], ref |-> res[p]] :
        p \in {c \in Calls : pc[c] = "done"}}
    \cup {[service |-> "calendar", tok |-> tok[p], ref |-> cal[p]] :
        p \in {c \in Calls : cal[c] # NoClient}}

\* the call is suspended inside a build
Building(p) == pc[p] \in {"auth", "calAuth", "calReady"}

\* call p issues its get in this step
Issues(p) == pc[p] = "idle" /\ pc'[p] # "idle"

\* the Meet build of call p makes its Calendar lookup in this step
IssuesCalendar(p) ==
    pc[p] = "auth" /\ svc[p] = "meet" /\ pc'[p] \in {"calAuth", "calReady"}

(* ------------------------------------------------------------------ C1 *)

\* C1: identity isolation. Whatever the interleaving, two gets of the same
\* service made with distinct credentials never return the same client.
IdentityIsolation ==
    \A a \in GetReturns : \A b \in GetReturns :
        ( /\ a.tok \in Credentials /\ b.tok \in Credentials
          /\ a.service = b.service
          /\ a.tok # b.tok )
        => a.ref # b.ref

\* two calls for one service with distinct credentials have both returned
IdentityIsolationWitness ==
    \E p \in Calls : \E q \in Calls :
        /\ pc[p] = "done" /\ pc[q] = "done"
        /\ tok[p] \in Credentials /\ tok[q] \in Credentials /\ tok[p] # tok[q]
        /\ svc[p] = svc[q]
        /\ res[p] # NoClient /\ res[q] # NoClient

(* ------------------------------------------------------------------ C2 *)

\* C2: for every tool the handler's switch handles, a tool call that carries
\* credential c makes every get of its case with c, and every client method it
\* invokes runs on a client built for c: never on a default client, never on
\* the client of another credential.
CredentialedResolution ==
    \A p \in Requests :
        cred[p] \in Credentials =>
            /\ \A i \in DOMAIN asks[p] :
                  asks[p][i].at = "case" => asks[p][i].tok = cred[p]
            /\ \A i \in DOMAIN used[p] :
                  heap[used[p][i].client].cred = cred[p]

(* ------------------------------------------------------------------ C3 *)

\* C3 (step): a get made with a credential after a get for the same service
\* and credential has returned is a hit: it completes at once with the very
\* reference the earlier get returned, and it constructs nothing, stores
\* nothing and starts no authentication exchange. The Calendar lookup of a
\* Meet build obeys the same rule.
CacheIdempotenceStep ==
    /\ \A p \in Calls :
          ( /\ Issues(p) /\ tok'[p] \in Credentials
            /\ MapGet(lastDone, <<svc'[p], tok'[p]>>) # NoClient )
          => /\ pc'[p] = "done"
             /\ res'[p] = MapGet(lastDone, <<svc'[p], tok'[p]>>)
             /\ factory' = factory
             /\ heap' = heap
             /\ clients' = clients
    /\ \A p \in Calls :
          ( /\ IssuesCalendar(p)
            /\ MapGet(lastDone, <<"calendar", tok[p]>>) # NoClient )
          => /\ pc'[p] = "calReady"
             /\ cal'[p] = MapGet(lastDone, <<"calendar", tok[p]>>)
             /\ factory' = factory
             /\ heap' = heap
             /\ clients' = clients

\* C3: cache idempotence. Two gets in sequence with the same credential
\* return the same reference and cost one authentication exchange.
CacheIdempotence == [][CacheIdempotenceStep]_vars

\* two gets for one key have returned the same client after one exchange
CacheIdempotenceWitness ==
    \E p \in Calls : \E q \in Calls :
        /\ p # q
        /\ pc[p] = "done" /\ pc[q] = "done"
        /\ Keyed(p) /\ Keyed(q) /\ svc[p] = svc[q] /\ tok[p] = tok[q]
        /\ res[p] = res[q] /\ res[p] # NoClient
        /\ Count(gets, <<svc[p], tok[p]>>) = 2
        /\ Count(factory, <<svc[p], tok[p]>>) = 1

(* ------------------------------------------------------------------ C4 *)

\* the <<service, credential>> pairs gets have been made for
PairsUsed == DOMAIN gets

\* the keys call p reads or writes: its own and, if it is a Meet build, the
\* Calendar key of the same credential
KeysTouched(p) ==
    {KeyFor(svc'[p], tok'[p])}
    \cup (IF svc'[p] = "meet" THEN {KeyFor("calendar", tok'[p])} ELSE {})

\* the builds of a service and credential that have completed
Completed(service, authToken) ==
    {i \in DOMAIN heap : heap[i].service = service /\ heap[i].cred = authToken}

\* C4 (state): builds of a key never outnumber the gets made for it (two
\* simultaneous first gets: at most two factory invocations), and as soon as a
\* build of the key has completed exactly one entry sits under the key,
\* holding a client built for it.
ConcurrentFirstUseInv ==
    \A pair \in PairsUsed :
        LET k == KeyFor(pair[1], pair[2])
            built == Completed(pair[1], pair[2])
        IN  /\ Count(factory, pair) <= Count(gets, pair)
            /\ built # {} => /\ Cardinality(Entries(k)) = 1
                             /\ \A e \in Entries(k) : e.val \in built
            /\ built = {} => Entries(k) = {}

\* C4 (step): a step of a call changes no entry, and so no lookup result, of
\* a key other than the keys of that call.
ConcurrentFirstUseStep ==
    \A e \in (clients \ clients') \cup (clients' \ clients) :
        \E p \in Calls : pc'[p] # pc[p] /\ e.key \in KeysTouched(p)

\* C4: concurrent first use of a key costs at most one build per call, leaves
\* exactly one entry under the key, and leaves every other key alone.
ConcurrentFirstUse ==
    []ConcurrentFirstUseInv /\ [][ConcurrentFirstUseStep]_vars

\* two calls missed the same empty key, both built, both returned, and an
\* entry of another key is still in the cache
ConcurrentFirstUseWitness ==
    \E p \in Calls : \E q \in Calls :
        /\ p # q
        /\ pc[p] = "done" /\ pc[q] = "done"
        /\ Keyed(p) /\ Keyed(q) /\ svc[p] = svc[q] /\ tok[p] = tok[q]
        /\ res[p] # res[q]
        /\ Count(factory, <<svc[p], tok[p]>>) = 2
        /\ Cardinality(Entries(CallKey(p))) = 1
        /\ \E e \in clients : e.key # CallKey(p) /\ e.key \notin DefaultKeys

(* ------------------------------------------------------------------ C5 *)

\* C5: a duplicate construction is wasted work only: no get fails because of
\* it, and the client a credentialed get has returned is the client cached
\* for its (credential, service), the one later gets return.
BenignDuplicate ==
    \A p \in Calls :
        (pc[p] = "done" /\ tok[p] \in Credentials)
        => res[p] = MapGet(clients, KeyFor(svc[p], tok[p]))

(* ------------------------------------------------------------------ C6 *)

\* C6 (state): what sits in the cache under a credential's key is a client
\* whose construction has completed, built for that key and stored by
\* clients.set; a key none of whose builds has completed (all failed, or
\* still suspended or abandoned in their exchange) has no entry at all.
BuiltBeforeStoredInv ==
    /\ \A e \in clients :
          /\ e.val \in DOMAIN heap
          /\ e.key \notin DefaultKeys =>
                /\ e \in registered
                /\ heap[e.val].cred \in Credentials
                /\ e.key = KeyFor(heap[e.val].service, heap[e.val].cred)
                /\ heap[e.val].service = "meet" =>
                      heap[e.val].calendar \in DOMAIN heap
    /\ \A pair \in DOMAIN factory :
          Completed(pair[1], pair[2]) = {} =>
              Entries(KeyFor(pair[1], pair[2])) = {}

\* C6 (step): a failing exchange ends the call with the failure and without
\* a client, and stores and constructs nothing; a get that finds no entry
\* under its key starts a new exchange.
BuiltBeforeStoredStep ==
    /\ \A p \in Calls :
          (pc[p] # "failed" /\ pc'[p] = "failed")
          => /\ Building(p)
             /\ res'[p] = NoClient
             /\ clients' = clients
             /\ heap' = heap
    /\ \A p \in Calls :
          ( /\ Issues(p) /\ tok'[p] \in Credentials
            /\ Entries(KeyFor(svc'[p], tok'[p])) = {} )
          => /\ pc'[p] = "auth"
             /\ Count(factory', <<svc'[p], tok'[p]>>)
                   = Count(factory, <<svc'[p], tok'[p]>>) + 1

\* C6: a client is stored only once built; a failed build leaves no entry and
\* the next get of that credential builds from scratch.
BuiltBeforeStored ==
    []BuiltBeforeStoredInv /\ [][BuiltBeforeStoredStep]_vars

\* a build failed, its key stayed empty, and a later get of the same service
\* and credential ran the exchange again and succeeded
BuiltBeforeStoredWitness ==
    \E p \in Calls : \E q \in Calls :
        /\ p < q
        /\ pc[p] = "failed" /\ pc[q] = "done"
        /\ Keyed(p) /\ svc[p] = svc[q] /\ tok[p] = tok[q]
        /\ Count(factory, <<svc[p], tok[p]>>) = 2
        /\ Cardinality(Completed(svc[p], tok[p])) = 1
        /\ Entries(CallKey(q)) = {[key |-> CallKey(q), val |-> res[q]]}

(* ------------------------------------------------------------------ C7 *)

\* C7: the cache holds at most one client per (fingerprint, service), and
\* every client constructed for a credential, and so every client a
\* credentialed get returns, has been stored in the cache under its key.
SingleSourceOfTruth ==
    /\ \A s \in Services : \A t \in Credentials :
          Cardinality(Entries(KeyFor(s, t))) <= 1
    /\ \A i \in DOMAIN heap :
          heap[i].cred \in Credentials =>
              [key |-> KeyFor(heap[i].service, heap[i].cred), val |-> i]
                  \in registered
    /\ \A r \in GetReturns :
          r.tok \in Credentials =>
              [key |-> KeyFor(r.service, r.tok), val |-> r.ref] \in registered

\* two clients were built and returned for one key and one of them is cached
SingleSourceOfTruthWitness ==
    \E p \in Calls : \E q \in Calls :
        /\ pc[p] = "done" /\ pc[q] = "done"
        /\ Keyed(p) /\ svc[p] = svc[q] /\ tok[p] = tok[q]
        /\ res[p] # res[q]
        /\ Cardinality({r \in registered : r.key = CallKey(p)}) = 2
        /\ Cardinality(Entries(CallKey(p))) = 1

(* ------------------------------------------------------------------ C8 *)

\* the entries of the default identity
DefaultEntries == {e \in clients : e.key \in DefaultKeys}

\* C8 (step): no step adds, replaces or removes a default entry, and a get
\* without a credential changes no entry at all.
DisjointSpacesStep ==
    /\ DefaultEntries' = DefaultEntries
    /\ \A p \in Calls :
          (Issues(p) /\ tok'[p] \notin Credentials) => clients' = clients

\* C8: the default and the keyed entries are disjoint and the default entries
\* stay what startup made them.
DisjointSpaces ==
    /\ [](DefaultEntries = StartupClients(multiuser))
    /\ [](\A e \in clients : e.key \in DefaultKeys => heap[e.val].cred \notin Credentials)
    /\ [][DisjointSpacesStep]_vars

\* single-tenant: credentialed builds and default gets have both happened
DisjointSpacesWitness ==
    /\ ~multiuser
    /\ \E p \in Calls : \E q \in Calls :
          /\ pc[p] = "done" /\ Keyed(p) /\ svc[p] \in DefaultServices
          /\ pc[q] = "done" /\ tok[q] \notin Credentials /\ svc[q] = svc[p]
          /\ res[q] # NoClient /\ res[q] # res[p]
          /\ Entries(CallKey(p)) # {}

(* ------------------------------------------------------------------ C9 *)

\* C9 (step): in single-tenant mode a get with no credential, undefined or
\* the empty string, returns at once what startup registered for the service,
\* which for Calendar, Gmail, Drive and Tasks is the default client built on
\* the default authentication; it starts no exchange, constructs nothing and
\* leaves the cache as it is.
DefaultIsolationStep ==
    \A p \in Calls :
        (Issues(p) /\ tok'[p] \notin Credentials /\ ~multiuser)
        => /\ pc'[p] = "done"
           /\ res'[p] = MapGet(StartupClients(FALSE), "default-google-" \o svc'[p])
           /\ svc'[p] \in DefaultServices =>
                 /\ res'[p] \in DOMAIN heap
                 /\ heap[res'[p]].service = svc'[p]
                 /\ heap[res'[p]].cred = Undefined
           /\ factory' = factory
           /\ gets' = gets
           /\ heap' = heap
           /\ clients' = clients

NextCall(p) == pc[p] = "idle" /\ \A q \in Calls : q < p => pc[q] # "idle"

\* C10 (state): while a build of one credential is suspended, a get of
\* another credential whose entry is cached can be made.
NoCrossIdentityWaitInv ==
    \A p \in Calls : \A s \in Services : \A t \in Credentials :
        ( /\ NextCall(p)
          /\ Entries(KeyFor(s, t)) # {}
          /\ \E q \in Calls : Building(q) /\ tok[q] # t )
        => ENABLED GetInstance(p, s, t)

\* C10 (step): such a get completes at once with the cached client of its
\* own credential, and a step of a suspended build, its completion or its
\* failure, changes entries of its own credential only.
NoCrossIdentityWaitStep ==
    /\ \A p \in Calls :
          ( /\ Issues(p) /\ tok'[p] \in Credentials
            /\ Entries(KeyFor(svc'[p], tok'[p])) # {}
            /\ \E q \in Calls : Building(q) /\ tok[q] # tok'[p] )
          => /\ pc'[p] = "done"
             /\ \A e \in Entries(KeyFor(svc'[p], tok'[p])) : res'[p] = e.val
             /\ heap[res'[p]].cred = tok'[p]
    /\ \A q \in Calls :
          (Building(q) /\ pc'[q] # pc[q])
          => \A e \in (clients \ clients') \cup (clients' \ clients) :
                e.key \in KeysOf(tok[q])

\* C10: a build of one identity neither blocks nor invalidates the lookups
\* of another identity.
NoCrossIdentityWait ==
    []NoCrossIdentityWaitInv /\ [][NoCrossIdentityWaitStep]_vars

\* a get hit the cached client of one credential while a build of another
\* credential was suspended
NoCrossIdentityWaitWitness ==
    \E p \in Calls : \E q \in Calls : \E r \in Calls :
        /\ p < r /\ q < r
        /\ pc[p] = "done" /\ pc[r] = "done" /\ Keyed(p)
        /\ svc[p] = svc[r] /\ tok[p] = tok[r] /\ res[p] = res[r]
        /\ Count(factory, <<svc[p], tok[p]>>) = 1
        /\ Building(q) /\ tok[q] \in Credentials /\ tok[q] # tok[p]

(* ----------------------------------------------------------------- C11 *)

\* how many suspensions a Meet build has left at most
MeetRank(p) ==
    CASE pc[p] = "auth" -> 3
      [] pc[p] = "calAuth" -> 2
      [] pc[p] = "calReady" -> 1
      [] OTHER -> 0

\* the references registered under the Calendar key of a credential
CalendarsOf(authToken) ==
    {e.val : e \in {r \in registered : r.key = KeyFor("calendar", authToken)}}

\* C11 (state): the Calendar client a credentialed Meet build holds, and the
\* one inside every Meet client that was registered, is a Calendar client of
\* the same credential that was registered under the Calendar key before; a
\* suspended Meet build can always go on.
MeetDependencyInv ==
    /\ \A p \in Calls :
          (svc[p] = "meet" /\ tok[p] \in Credentials /\ cal[p] # NoClient)
          => /\ cal[p] \in CalendarsOf(tok[p])
             /\ heap[cal[p]].service = "calendar"
             /\ heap[cal[p]].cred = tok[p]
    /\ \A p \in Calls :
          (svc[p] = "meet" /\ tok[p] \in Credentials /\ pc[p] = "calReady")
          => cal[p] # NoClient
    /\ \A p \in Calls :
          (svc[p] = "meet" /\ pc[p] = "done" /\ cal[p] # NoClient)
          => heap[res[p]].calendar = cal[p]
    /\ \A e \in registered : \A c \in Credentials :
          e.key = KeyFor("meet", c)
          => /\ heap[e.val].calendar \in CalendarsOf(c)
             /\ heap[e.val].calendar < e.val
    /\ \A p \in Calls :
          (svc[p] = "meet" /\ Building(p))
          => ENABLED (MeetAuthResolve(p) \/ MeetCalendarResolve(p) \/ MeetFinish(p))

\* C11 (step): the Calendar lookup of a Meet build returns the cached Calendar
\* client of the credential without a build when there is one and starts one
\* build when there is none; the nested build caches what it built; the Meet
\* client is registered after that; every step of a Meet build brings it
\* nearer to its end, and the Calendar get never makes a get of its own.
MeetDependencyStep ==
    \A p \in Calls :
        LET key == KeyFor("calendar", tok[p])
            pair == <<"calendar", tok[p]>>
        IN  /\ (IssuesCalendar(p) /\ Entries(key) # {})
               => /\ pc'[p] = "calReady"
                  /\ \A e \in Entries(key) : cal'[p] = e.val
                  /\ Count(factory', pair) = Count(factory, pair)
                  /\ heap' = heap /\ clients' = clients
            /\ (IssuesCalendar(p) /\ Entries(key) = {})
               => /\ pc'[p] = "calAuth"
                  /\ Count(factory', pair) = Count(factory, pair) + 1
                  /\ clients' = clients
            /\ (pc[p] = "calAuth" /\ pc'[p] = "calReady")
               => /\ [key |-> key, val |-> cal'[p]] \in clients'
                  /\ KeyFor("meet", tok[p]) \notin {e.key : e \in clients' \ clients}
            /\ (svc[p] = "meet" /\ tok[p] \in Credentials /\ pc[p] # "done" /\ pc'[p] = "done")
               => /\ pc[p] = "calReady"
                  /\ [key |-> KeyFor("meet", tok[p]), val |-> res'[p]] \in clients'
            /\ (svc[p] = "meet" /\ pc[p] # "idle" /\ pc'[p] # pc[p])
               => MeetRank(p)' < MeetRank(p)
            /\ (svc[p] # "meet" /\ pc[p] # "idle")
               => pc'[p] \notin {"calAuth", "calReady"}

\* C11: a credentialed Meet build resolves the Calendar client of its own
\* identity through the cache, reusing or caching it, before the Meet client
\* is registered; the recursion is one level deep and ends.
MeetDependency ==
    []MeetDependencyInv /\ [][MeetDependencyStep]_vars

\* a Meet build completed around the Calendar client an earlier get of the
\* same credential had cached, with one Calendar build in all
MeetDependencyWitness ==
    \E p \in Calls : \E q \in Calls :
        /\ q < p
        /\ pc[q] = "done" /\ svc[q] = "calendar" /\ tok[q] \in Credentials
        /\ pc[p] = "done" /\ svc[p] = "meet" /\ tok[p] = tok[q]
        /\ heap[res[p]].calendar = res[q]
        /\ Count(factory, <<"calendar", tok[p]>>) = 1

(* ----------------------------------------------------------------- C12 *)

\* the messages of the errors a tool call can meet
ErrorMessages ==
    {"No arguments provided", "Missing required arguments", "invalid_grant",
     "Cannot read properties of undefined", "Invalid index", "upstream failure"}
    \cup {"Invalid arguments for " \o n : n \in ToolNames}

\* {content: [one text block "Error: <message>"], isError: true}
ErrorEnvelopes == {[isError |-> TRUE, text |-> "Error: " \o m] : m \in ErrorMessages}

\* every envelope the handler is meant to return
WellFormedEnvelopes ==
    ErrorEnvelopes
    \cup {[isError |-> TRUE, text |-> "Unknown tool: " \o n] : n \in ToolNames}
    \cup {[isError |-> FALSE, text |-> "result of " \o Handler(n).method] : n \in HandledTools}

\* tool call p ends in this step because of an error: a rejected build, a
\* failed startup, missing or invalid arguments, an undefined client
EndsOnError(p) ==
    /\ pc'[p] # pc[p]
    /\ \/ pc[p] = "auth" /\ pc'[p] # "resolved"
       \/ pc[p] = "waitInit" /\ init = "failed"
       \/ pc[p] = "resolved" /\ res[p] = NoClient
       \/ ((pc[p] = "idle" /\ multiuser) \/ (pc[p] = "waitInit" /\ init = "ready"))
          /\ (args'[p] = "none"
              \/ (tool'[p] \in HandledTools /\ args'[p] \in {"invalid", "blank"}
                  /\ (args'[p] = "blank" => tool'[p] = "google_calendar_create_event")))

\* C12 (state): no tool call has thrown to the transport, a call that has
\* returned has returned a well-formed envelope, and only then is there one.
EnvelopeInv ==
    \A p \in Requests :
        /\ pc[p] # "failed"
        /\ pc[p] = "replied" => env[p] \in WellFormedEnvelopes
        /\ pc[p] # "replied" => env[p] = NoEnvelope
        /\ (pc[p] = "replied" /\ ~env[p].isError) => used[p] # <<>>

\* C12 (step): a call that meets an error returns at once, with the envelope
\* {"Error: <message>", isError: true}; a returned envelope never changes.
EnvelopeStep ==
    \A p \in Requests :
        /\ EndsOnError(p) => (pc'[p] = "replied" /\ env'[p] \in ErrorEnvelopes)
        /\ (pc[p] = "executing" /\ pc'[p] = "replied" /\ env'[p].isError)
           => env'[p] \in ErrorEnvelopes
        /\ pc[p] = "replied" => (pc'[p] = "replied" /\ env'[p] = env[p])

\* C12: every tool call returns a well-formed envelope and never throws to
\* the transport; every error it meets is returned as "Error: <message>".
AlwaysEnvelope ==
    []EnvelopeInv /\ [][EnvelopeStep]_vars

\* one call has returned the error of a rejected build and another the error
\* of a rejected client method
AlwaysEnvelopeWitness ==
    \E p \in Requests : \E q \in Requests :
        /\ pc[p] = "replied" /\ env[p].text = "Error: invalid_grant" /\ used[p] = <<>>
        /\ pc[q] = "replied" /\ env[q].text = "Error: upstream failure" /\ used[q] # <<>>

(* ----------------------------------------------------------------- C13 *)

\* the tool names of the catalog
CatalogNames == {tools[i].name : i \in DOMAIN tools}

\* C13: a tool call whose tool name is not in the catalog never throws and
\* returns {isError: true, "Unknown tool: <name>"}, whatever its arguments,
\* the mode and the state of startup.
UnknownToolRejected ==
    \A p \in Requests :
        tool[p] \notin CatalogNames \cup {NoTool}
        => /\ pc[p] # "failed"
           /\ pc[p] = "replied"
              => env[p] = [isError |-> TRUE, text |-> "Unknown tool: " \o tool[p]]

(* ----------------------------------------------------------------- C14 *)

\* C14: a tool call whose arguments fail the validation of its tool returns
\* an error envelope without the ClientManager being asked for a client and
\* without a client method being invoked; in every call validation comes
\* before the first get and the get before the method.
ValidationGate ==
    \A p \in Requests :
        /\ (tool[p] \in HandledTools /\ args[p] \in {"invalid", "blank"})
           => /\ asks[p] = <<>>
              /\ used[p] = <<>>
              /\ pc[p] = "replied" => env[p].isError
        /\ used[p] # <<>> => (asks[p] # <<>> /\ args[p] = "valid")

(* ----------------------------------------------------------------- C15 *)

\* C15 (state): in single-tenant mode, while startup authentication is
\* pending no tool call has asked for a client or invoked a client method:
\* the calls received so far are suspended.
AwaitsStartupInv ==
    (~multiuser /\ init = "pending")
    => \A p \in Requests :
          /\ pc[p] \in {"idle", "waitInit"}
          /\ asks[p] = <<>>
          /\ used[p] = <<>>
          /\ res[p] = NoClient

\* C15 (step): in single-tenant mode a call that arrives is suspended first;
\* it stays suspended as long as startup is pending and makes its first get
\* only in a step that finds startup completed.
AwaitsStartupStep ==
    ~multiuser
    => \A p \in Requests :
          /\ (pc[p] = "idle" /\ pc'[p] # "idle") => pc'[p] = "waitInit"
          /\ (pc[p] = "waitInit" /\ init = "pending") => pc'[p] = "waitInit"
          /\ (asks[p] = <<>> /\ asks'[p] # <<>>)
             => (pc[p] = "waitInit" /\ init = "ready")
          /\ (used[p] = <<>> /\ used'[p] # <<>>) => init = "ready"

\* C15: in single-tenant mode no tool call resolves a client or executes an
\* operation before startup authentication has completed; a call received
\* before is suspended and goes on once startup has completed.
AwaitsStartup ==
    /\ []AwaitsStartupInv
    /\ [][AwaitsStartupStep]_vars
    /\ [](\A p \in Requests :
             (~multiuser /\ pc[p] = "waitInit" /\ init # "pending")
             => ENABLED InitAwaited(p))

\* a call received while startup was pending has gone on after startup
\* completed and invoked its method, while a later call is still suspended
AwaitsStartupWitness ==
    /\ ~multiuser
    /\ init = "ready"
    /\ \E p \in Requests : \E q \in Requests :
          /\ pc[p] = "executing" /\ used[p] # <<>>
          /\ pc[q] = "waitInit" /\ asks[q] = <<>>

(* ----------------------------------------------------------------- C16 *)

\* C16 (state): in single-tenant mode, once startup authentication has
\* failed, no tool call has asked for a client or invoked a method, and every
\* call that has returned has returned the error of the startup.
StartupFailedInv ==
    (~multiuser /\ init = "failed")
    => \A p \in Requests :
          /\ pc[p] \in {"idle", "waitInit", "replied"}
          /\ asks[p] = <<>>
          /\ used[p] = <<>>
          /\ pc[p] = "replied"
             => env[p] = [isError |-> TRUE, text |-> "Error: invalid_grant"]

\* C16 (step): a failed startup stays failed, and the next step of a call
\* that waited for it returns the error envelope.
StartupFailedStep ==
    (~multiuser /\ init = "failed")
    => /\ init' = "failed"
       /\ clients' = clients
       /\ \A p \in Requests :
             (pc[p] = "waitInit" /\ pc'[p] # pc[p])
             => (pc'[p] = "replied" /\ env'[p].isError)

\* C16: once startup authentication has failed, every tool call returns an
\* error envelope with the message of the failure and executes nothing.
StartupFailed ==
    []StartupFailedInv /\ [][StartupFailedStep]_vars

\* startup failed and two calls, one received after the other had returned,
\* have both returned the error
StartupFailedWitness ==
    /\ ~multiuser
    /\ init = "failed"
    /\ \A p \in Requests : pc[p] = "replied" /\ env[p].isError

(* ----------------------------------------------------------------- C17 *)

\* the tool call was made without a credential
Anonymous(p) == pc[p] # "idle" /\ tool[p] # NoTool /\ cred[p] \notin Credentials

\* C17 (state): in multi-tenant mode the cache holds no default entry, and a
\* tool call without a credential has invoked no client method, is never
\* inside a build nor inside a client method, and has returned, if it has, an
\* error envelope.
NoDefaultIdentityInv ==
    multiuser
    => /\ \A e \in clients : e.key \notin DefaultKeys
       /\ \A p \in Requests :
             Anonymous(p)
             => /\ used[p] = <<>>
                /\ res[p] = NoClient
                /\ pc[p] \in {"resolved", "replied"}
                /\ pc[p] = "replied" => env[p].isError

\* C17 (step): in multi-tenant mode a step of a tool call without a
\* credential adds no cache entry, constructs no client and starts no build.
NoDefaultIdentityStep ==
    multiuser
    => \A p \in Requests :
          ((pc[p] = "idle" /\ pc'[p] # "idle" /\ cred'[p] \notin Credentials)
           \/ (Anonymous(p) /\ pc'[p] # pc[p]))
          => (clients' = clients /\ heap' = heap /\ factory' = factory)

\* C17: multi-tenant mode has no default identity: a tool call without a
\* credential ends in an error envelope, executes nothing, caches nothing.
NoDefaultIdentity ==
    []NoDefaultIdentityInv /\ [][NoDefaultIdentityStep]_vars

\* in multi-tenant mode a tool call with valid arguments and no credential
\* got no client and has returned the error
NoDefaultIdentityWitness ==
    /\ multiuser
    /\ \E p \in Requests :
          /\ Anonymous(p) /\ pc[p] = "replied"
          /\ tool[p] \in HandledTools /\ args[p] = "valid"
          /\ asks[p] # <<>>
          /\ env[p] = [isError |-> TRUE,
                       text |-> "Error: Cannot read properties of undefined"]

(* ----------------------------------------------------------------- C18 *)

\* the invocations of the tool's own method by tool call p
Operations(p) ==
    SelectSeq(used[p], LAMBDA u : u.method = Handler(tool[p]).method)

\* C18: a tool call with valid arguments and credential c that has returned
\* a success envelope has invoked the method of its tool exactly once, on the
\* client registered for (c, service), and the envelope carries the result.
SuccessfulCall ==
    \A p \in Requests :
        (pc[p] = "replied" /\ ~env[p].isError /\ cred[p] \in Credentials)
        => /\ args[p] = "valid"
           /\ Len(Operations(p)) = 1
           /\ heap[Operations(p)[1].client].service = Handler(tool[p]).service
           /\ heap[Operations(p)[1].client].cred = cred[p]
           /\ [key |-> KeyFor(Handler(tool[p]).service, cred[p]),
               val |-> Operations(p)[1].client] \in registered
           /\ env[p] = [isError |-> FALSE,
                        text |-> "result of " \o Handler(tool[p]).method]

(* ----------------------------------------------------------------- C19 *)

\* the Tool objects tools.ts declares, in the order of their declarations
Declared ==
    <<SET_DEFAULT_CALENDAR_TOOL, LIST_CALENDARS_TOOL, CREATE_EVENT_TOOL,
      GET_EVENTS_TOOL, GET_EVENT_TOOL, UPDATE_EVENT_TOOL, DELETE_EVENT_TOOL,
      FIND_FREE_TIME_TOOL, LIST_LABELS_TOOL, LIST_EMAILS_TOOL, GET_EMAIL_TOOL,
      GET_EMAIL_BY_INDEX_TOOL, SEND_EMAIL_TOOL, DRAFT_EMAIL_TOOL,
      DELETE_EMAIL_TOOL, MODIFY_LABELS_TOOL, LIST_FILES_TOOL,
      GET_FILE_CONTENT_TOOL, CREATE_FILE_TOOL, UPDATE_FILE_TOOL,
      APPEND_TO_FILE_TOOL, DELETE_FILE_TOOL, SHARE_FILE_TOOL,
      SET_DEFAULT_TASKLIST_TOOL, LIST_TASKLISTS_TOOL, LIST_TASKS_TOOL,
      GET_TASK_TOOL, CREATE_TASK_TOOL, UPDATE_TASK_TOOL, COMPLETE_TASK_TOOL,
      DELETE_TASK_TOOL, CREATE_TASKLIST_TOOL, DELETE_TASKLIST_TOOL,
      LIST_MEETINGS_TOOL, GET_MEETING_INFO_TOOL, GET_MEETING_TRANSCRIPT_TOOL,
      SEARCH_MEETING_TRANSCRIPTS_TOOL, QUERY_GEMINI_NOTES_TOOL>>

\* the tools the comments of tools.ts mark as disabled
Disabled == {UPDATE_FILE_TOOL, QUERY_GEMINI_NOTES_TOOL}

\* the enabled tools, in the order of their declarations
Enabled == SelectSeq(Declared, LAMBDA t : t \notin Disabled)

\* C19: a "list tools" request without scopes returns every enabled tool,
\* once each, in registration order, and every such request returns the same
\* sequence.
UnscopedListing ==
    /\ (listPc = "listed" /\ ~listScopes.given)
       => /\ listing = Enabled
          /\ \A i \in DOMAIN listing : \A j \in DOMAIN listing :
                listing[i].name = listing[j].name => i = j
          /\ \A i \in DOMAIN listing : listing[i] \notin Disabled
    /\ \A l \in unscoped : l = Enabled
    /\ Cardinality(unscoped) <= 1

\* a request without scopes has been answered with the 36 enabled tools
UnscopedListingWitness ==
    /\ listPc = "listed"
    /\ ~listScopes.given
    /\ Len(listing) = 36
    /\ listing[1] = SET_DEFAULT_CALENDAR_TOOL
    /\ listing[36] = SEARCH_MEETING_TRANSCRIPTS_TOOL
    /\ unscoped = {listing}

(* ----------------------------------------------------------------- C20 *)

\* the tool list of a scope: unknown scopes yield the empty list
ScopeList(scope) ==
    IF scope \in DOMAIN toolsPerScope THEN toolsPerScope[scope] ELSE <<>>

\* the concatenation of the tool lists of a sequence of scopes
RECURSIVE Concatenation(_)
Concatenation(list) ==
    IF list = <<>> THEN <<>>
    ELSE ScopeList(Head(list)) \o Concatenation(Tail(list))

\* the names of the elements of a sequence
NamesOf(seq) == {seq[i].name : i \in DOMAIN seq}

\* where a name is first met in a sequence
FirstMet(seq, name) ==
    CHOOSE i \in DOMAIN seq :
        seq[i].name = name /\ \A j \in DOMAIN seq : seq[j].name = name => i <= j

\* C20: a "list tools" request with scopes returns the concatenation of the
\* tool lists of its scopes, deduplicated by name: no name twice, exactly the
\* names of the lists, each tool the first one met with its name, in the
\* order in which the names are first met.
ScopedListing ==
    (listPc = "listed" /\ listScopes.given)
    => LET all == Concatenation(listScopes.list)
       IN  /\ \A i \in DOMAIN listing : \A j \in DOMAIN listing :
                 listing[i].name = listing[j].name => i = j
           /\ NamesOf(listing) = NamesOf(all)
           /\ \A i \in DOMAIN listing :
                 listing[i] = all[FirstMet(all, listing[i].name)]
           /\ \A i \in DOMAIN listing : \A j \in DOMAIN listing :
                 i < j => FirstMet(all, listing[i].name) < FirstMet(all, listing[j].name)


(* ----------------------------------------------------------------- C21 *)

\* the scopes of a list that are keys of the scope table itself
KnownScopes(list) == SelectSeq(list, LAMBDA s : s \in DOMAIN toolsPerScope)

\* the tools the scope table holds
TableTools == UNION {{toolsPerScope[s][i] : i \in DOMAIN toolsPerScope[s]} :
                     s \in DOMAIN toolsPerScope}

\* C21: a scope that is not a key of the scope table contributes nothing to
\* a scoped listing: every element listed is a tool of the table, a list of
\* unknown scopes only is answered with the empty list, and the answer is
\* the one the request gets with its unknown scopes left out.
UnknownScopesInert ==
    (listPc = "listed" /\ listScopes.given)
    => /\ \A i \in DOMAIN listing : listing[i] \in TableTools
       /\ KnownScopes(listScopes.list) = <<>> => listing = <<>>
       /\ listing = getToolsForScopes(Scopes(KnownScopes(listScopes.list)))

(* ----------------------------------------------------------------- C22 *)

\* the four read-only calendar tools: list calendars, get events, get event,
\* find free time
ReadOnlyCalendarTools ==
    <<LIST_CALENDARS_TOOL, GET_EVENTS_TOOL, GET_EVENT_TOOL, FIND_FREE_TIME_TOOL>>

\* a listing names no tool twice
NoDuplicates(seq) ==
    \A i \in DOMAIN seq : \A j \in DOMAIN seq : seq[i].name = seq[j].name => i = j

\* C22 as stated: a "list tools" request whose only scope is the string
\* "calendar.readonly" is answered with exactly the four read-only calendar
\* tools, none twice.
CalendarReadonlyShortName ==
    (listPc = "listed" /\ listScopes = Scopes(<<"calendar.readonly">>))
    => /\ listing = ReadOnlyCalendarTools
       /\ NoDuplicates(listing)

\* C22: a "list tools" request whose only scope is the key
\* "https://www.googleapis.com/auth/calendar.readonly" of the scope table is
\* answered with exactly the four read-only calendar tools (list calendars,
\* get events, get event, find free time), none twice; the short string
\* "calendar.readonly" is no key of the table and is answered with the empty
\* list.
CalendarReadonlyListing ==
    /\ (listPc = "listed"
        /\ listScopes = Scopes(<<"https://www.googleapis.com/auth/calendar.readonly">>))
       => /\ listing = ReadOnlyCalendarTools
          /\ Len(listing) = 4
          /\ NoDuplicates(listing)
          /\ NamesOf(listing) = {"google_calendar_list_calendars",
                                 "google_calendar_get_events",
                                 "google_calendar_get_event",
                                 "google_calendar_find_free_time"}
    /\ (listPc = "listed" /\ listScopes = Scopes(<<"calendar.readonly">>))
       => listing = <<>>

\* the request with the read-only calendar scope has been answered with
\* four tools
CalendarReadonlyListingWitness ==
    /\ listPc = "listed"
    /\ listScopes = Scopes(<<"https://www.googleapis.com/auth/calendar.readonly">>)
    /\ Len(listing) = 4
    /\ listing[1].name = "google_calendar_list_calendars"

(* ----------------------------------------------------------------- C23 *)

\* the tool names a listing can return: those of the catalog and those of
\* the lists of the scope table
ListedNames == CatalogNames \cup {t.name : t \in TableTools}

\* C23: a tool call that names a tool a listing returns, with arguments its
\* schema accepts, is never answered with the "Unknown tool" envelope.
ListedToolsHandled ==
    \A p \in Requests :
        (pc[p] = "replied" /\ tool[p] \in ListedNames /\ args[p] = "valid")
        => env[p] # [isError |-> TRUE, text |-> "Unknown tool: " \o tool[p]]

(* ----------------------------------------------------------------- C24 *)

\* C24: under every interleaving of gets, the Calendar client inside the Meet
\* client cached for a credential is the Calendar client cached for that
\* credential.
MeetHoldsCachedCalendar ==
    \A c \in Credentials :
        \A m \in Entries(KeyFor("meet", c)) :
            /\ Entries(KeyFor("calendar", c)) # {}
            /\ \A k \in Entries(KeyFor("calendar", c)) :
                  heap[m.val].calendar = k.val

(* ----------------------------------------------------------------- C25 *)

\* C25: within one google_gmail_get_email_by_index call, getMessageIdByIndex
\* and getEmail are invoked on the same Gmail client, whatever other calls
\* with the same credential do meanwhile.
SameClientForIndexAndFetch ==
    \A p \in Requests :
        tool[p] = "google_gmail_get_email_by_index"
        => \A i \in DOMAIN used[p] : \A j \in DOMAIN used[p] :
              (used[p][i].method = "getMessageIdByIndex" /\ used[p][j].method = "getEmail")
              => used[p][i].client = used[p][j].client

(* ----------------------------------------------------------------- C26 *)

\* C26: the scope table and the catalog are consistent: the tool names of
\* the lists of the scope table are the tool names of the catalog, and every
\* element of a scoped listing is an element of the unscoped listing.
TableMatchesCatalog ==
    /\ {t.name : t \in TableTools} = CatalogNames
    /\ (listPc = "listed" /\ listScopes.given)
       => \A i \in DOMAIN listing :
             \E j \in DOMAIN getToolsForScopes(NoScopes) :
                 listing[i] = getToolsForScopes(NoScopes)[j]

(* ----------------------------------------------------------------- C27 *)

\* C27: the transport of a request is closed only after the request has been
\* handled: as long as the listener has not returned, and in particular
\* while handleRequest is in flight, close() has not been invoked on it.
ClosedAfterHandled ==
    \A r \in HttpRequests :
        (trans[r] # 0 /\ trans[r] \in closed) => httpPc[r] = "returned"

(* ----------------------------------------------------------------- C28 *)

\* C28 (state): the listener has written at most one fallback response for a
\* request, and the timeout of a response that has ended is not armed.
FallbackOnceInv ==
    \A r \in HttpRequests :
        /\ Len(wrote[r]) <= 1
        /\ \A i \in DOMAIN wrote[r] : wrote[r][i] \in {408, 500}
        /\ ended[r] => timer[r] # "armed"

\* C28 (step): a fallback response is written only while no headers have
\* been sent, it sends and ends the response, a 408 is written by the timeout
\* callback only, and once the response has ended no fallback is written.
FallbackOnceStep ==
    \A r \in HttpRequests :
        /\ wrote'[r] # wrote[r]
           => /\ ~headersSent[r]
              /\ ~ended[r]
              /\ headersSent'[r] /\ ended'[r]
              /\ Len(wrote'[r]) = Len(wrote[r]) + 1
        /\ (wrote'[r] # wrote[r] /\ wrote'[r][Len(wrote'[r])] = 408)
           => (timer[r] = "armed" /\ timer'[r] = "fired")
        /\ ended[r] => (wrote'[r] = wrote[r] /\ ended'[r] /\ timer'[r] = timer[r])

\* C28: per request the listener writes its own fallback response (408 or
\* 500) at most once and only while no headers have been sent; once the
\* response has ended the timeout is cleared and writes no 408.
FallbackOnce ==
    []FallbackOnceInv /\ [][FallbackOnceStep]_vars

\* the timeout answered a request with 408 while its transport was being
\* connected or was handling it, and the listener, returning through its
\* catch block afterwards, wrote nothing more
FallbackOnceWitness ==
    \E r \in HttpRequests :
        /\ httpPc[r] = "returned"
        /\ trans[r] # 0
        /\ wrote[r] = <<408>>
        /\ timer[r] = "fired"
        /\ ended[r]

(* ----------------------------------------------------------------- C29 *)

\* C29 (state): the cache holds at most 100 transports, each once, none of
\* them closed; the transport of a request is one getTransport constructed,
\* and no two requests have the same.
BoundedCacheInv ==
    /\ Len(cache) <= 100
    /\ Cardinality(Range(cache)) = Len(cache)
    /\ Range(cache) \cap closed = {}
    /\ Range(cache) \cup closed \subseteq 1 .. made
    /\ \A r \in HttpRequests :
          /\ httpPc[r] \in {"connecting", "cached", "handling"} => trans[r] \in 1 .. made
          /\ \A q \in HttpRequests :
                (q # r /\ trans[r] # 0) => trans[q] # trans[r]

\* C29 (step): a request that reaches getTransport gets a transport that did
\* not exist before and registers that one; every transport that leaves the
\* cache has close() invoked on it in the same step; and in a step where a
\* close() fails no listener takes its catch block and nothing is written.
BoundedCacheStep ==
    /\ \A r \in HttpRequests :
          /\ (httpPc[r] = "idle" /\ httpPc'[r] = "connecting")
             => /\ made' = made + 1
                /\ trans'[r] = made'
                /\ trans'[r] \notin Range(cache) \cup closed
          /\ (httpPc[r] = "connecting" /\ httpPc'[r] = "cached")
             => /\ cache' # <<>>
                /\ cache'[Len(cache')] = trans[r]
                /\ trans[r] \notin Range(cache)
          /\ (httpPc[r] # "idle" /\ httpPc[r] # "connecting") => trans'[r] = trans[r]
    /\ cache' # cache
       => /\ closed \subseteq closed'
          /\ closed' \ closed = Range(cache) \ Range(cache')
    /\ cache' = cache => closed' = closed
    /\ (swallowed' /\ ~swallowed)
       => /\ closed' # closed
          /\ wrote' = wrote
          /\ \A r \in HttpRequests :
                httpPc'[r] # httpPc[r]
                => (httpPc[r] = "connecting" /\ httpPc'[r] = "cached")

\* C29: the transport cache never holds more than 100 transports; every
\* MCP request creates and registers a fresh transport that no other request
\* gets; every transport that leaves the cache, by eviction or by destroy,
\* has close() invoked on it, and a failing close() is caught.
BoundedCache ==
    []BoundedCacheInv /\ [][BoundedCacheStep]_vars

\* the cache is full after a set that evicted a transport whose close()
\* failed, and the request whose transport was set is being handled
BoundedCacheWitness ==
    \E r \in HttpRequests :
        /\ Len(cache) = 100
        /\ cache[100] = trans[r]
        /\ closed # {}
        /\ swallowed
        /\ ~destroyed
        /\ httpPc[r] = "handling"

(* ----------------------------------------------------------------- C30 *)

\* a page without a nextPageToken: the field is absent or empty
LastPage(response) == response.nextPageToken \in {Undefined, ""}

\* the entries of a sequence of pages, in page order
RECURSIVE EntriesOf(_)
EntriesOf(responses) ==
    IF responses = <<>> THEN <<>>
    ELSE (IF Head(responses).hasEntries THEN Head(responses).transcriptEntries
          ELSE <<>>)
         \o EntriesOf(Tail(responses))

\* C30 (state): requests are made one after another, the first without a
\* pageToken and each later one with the nextPageToken of the response
\* before; no request follows a page without a token; the call has returned
\* exactly when such a page has arrived, and what it collected and returns
\* is the concatenation of the entries of all pages in page order.
PagedFetchInv ==
    /\ fetchPc = "idle" => (requested = <<>> /\ pages = <<>>)
    /\ fetchPc = "waiting" => Len(requested) = Len(pages) + 1
    /\ fetchPc = "returned" => Len(requested) = Len(pages)
    /\ requested # <<>> => requested[1] = Undefined
    /\ \A i \in DOMAIN requested :
          i > 1 => /\ requested[i] = pages[i - 1].nextPageToken
                   /\ ~LastPage(pages[i - 1])
    /\ \A i \in DOMAIN pages : LastPage(pages[i]) => i = Len(pages)
    /\ fetchPc = "returned" <=> (pages # <<>> /\ LastPage(pages[Len(pages)]))
    /\ fetchPc # "idle" => entries = EntriesOf(pages)

\* C30 (step): a response is followed by at most one request, and a call
\* that has returned or failed makes no request.
PagedFetchStep ==
    /\ Len(requested') <= Len(requested) + 1
    /\ Len(pages') <= Len(pages) + 1
    /\ fetchPc \in {"returned", "failed"}
       => (requested' = requested /\ entries' = entries /\ fetchPc' = fetchPc)

\* C30: fetchAllTranscriptEntries requests the pages one after another,
\* passing each response's nextPageToken to the next request, stops at the
\* first page without one and returns the entries of all pages in page
\* order; when the service comes to a page without a token, the call ends.
PagedFetch ==
    /\ []PagedFetchInv
    /\ [][PagedFetchStep]_vars
    /\ (fetchPc = "waiting") ~> (fetchPc \in {"returned", "failed"})

\* three pages were fetched with two different tokens and the call returned
\* their entries in page order
PagedFetchWitness ==
    /\ fetchPc = "returned"
    /\ Len(pages) = 3
    /\ requested = <<Undefined, "token-1", "token-2">>
    /\ entries = <<"entry-b", "entry-c", "entry-a">>
====
